---- MODULE Spec2Model ----
(***************************************************************************)
(* A model of the scoring core of Risk_Impact.py: the entry scorers, the   *)
(* temporal aggregators, the Workday Health Index, the global pressure     *)
(* adjustment and the weekly metrics.                                      *)
(*                                                                         *)
(* Python floats are IEEE-754 binary64 numbers.  They are modelled bit for *)
(* bit: a float is a sign, a 53-bit mantissa and an exponent, and every    *)
(* arithmetic operation rounds to nearest, ties to even.  TLC's integers   *)
(* are 32 bits wide, so a mantissa is kept as a little-endian sequence of  *)
(* 15-bit limbs.                                                           *)
(***************************************************************************)
EXTENDS Integers, Sequences, FiniteSets, TLC

(***************************************************************************)
(* Natural numbers of any size: little-endian sequences of 15-bit limbs,   *)
(* without leading zero limbs (<<>> is 0).                                 *)
(***************************************************************************)
Base == 2 ^ 15

Pow2(n) == 2 ^ n

RECURSIVE NatBitLen(_)
NatBitLen(n) == IF n = 0 THEN 0 ELSE 1 + NatBitLen(n \div 2)

LimbBits == NatBitLen(Base - 1)

Limb(a, i) == IF i <= Len(a) THEN a[i] ELSE 0

RECURSIVE BTrim(_)
BTrim(a) ==
  IF a = <<>> THEN a
  ELSE IF a[Len(a)] = 0 THEN BTrim(SubSeq(a, 1, Len(a) - 1)) ELSE a

RECURSIVE BFromNat(_)
BFromNat(n) == IF n = 0 THEN <<>> ELSE <<n % Base>> \o BFromNat(n \div Base)

RECURSIVE BAddFrom(_, _, _, _)
BAddFrom(a, b, i, c) ==
  IF i > Len(a) /\ i > Len(b) THEN (IF c = 0 THEN <<>> ELSE <<c>>)
  ELSE LET t == Limb(a, i) + Limb(b, i) + c
       IN  <<t % Base>> \o BAddFrom(a, b, i + 1, t \div Base)

BAdd(a, b) == BAddFrom(a, b, 1, 0)

\* 2a + bit
BDouble(a, bit) == BAddFrom(a, a, 1, bit)

RECURSIVE BSubFrom(_, _, _, _)
BSubFrom(a, b, i, br) ==
  IF i > Len(a) THEN <<>>
  ELSE LET t == Limb(a, i) - Limb(b, i) - br
       IN  <<IF t < 0 THEN t + Base ELSE t>>
             \o BSubFrom(a, b, i + 1, IF t < 0 THEN 1 ELSE 0)

\* a - b, for a >= b
BSub(a, b) == BTrim(BSubFrom(a, b, 1, 0))

RECURSIVE BCmpFrom(_, _, _)
BCmpFrom(a, b, i) ==
  IF i = 0 THEN 0
  ELSE IF a[i] < b[i] THEN -1
  ELSE IF a[i] > b[i] THEN 1
  ELSE BCmpFrom(a, b, i - 1)

\* -1, 0 or 1 as a < b, a = b or a > b
BCmp(a, b) ==
  IF Len(a) < Len(b) THEN -1
  ELSE IF Len(a) > Len(b) THEN 1
  ELSE BCmpFrom(a, b, Len(a))

RECURSIVE BMulSmallFrom(_, _, _, _)
BMulSmallFrom(a, k, i, c) ==
  IF i > Len(a) THEN (IF c = 0 THEN <<>> ELSE <<c>>)
  ELSE LET t == a[i] * k + c
       IN  <<t % Base>> \o BMulSmallFrom(a, k, i + 1, t \div Base)

\* a * k, for 0 <= k < Base
BMulSmall(a, k) == IF k = 0 THEN <<>> ELSE BMulSmallFrom(a, k, 1, 0)

Zeros(n) == [i \in 1..n |-> 0]

BShlLimbs(a, n) == IF a = <<>> THEN a ELSE Zeros(n) \o a

RECURSIVE BMulFrom(_, _, _)
BMulFrom(a, b, j) ==
  IF j > Len(b) THEN <<>>
  ELSE BAdd(BShlLimbs(BMulSmall(a, b[j]), j - 1), BMulFrom(a, b, j + 1))

BMul(a, b) == BMulFrom(a, b, 1)

\* a * 2^n
BShl(a, n) == BShlLimbs(BMulSmall(a, Pow2(n % LimbBits)), n \div LimbBits)

\* floor(a / 2^n)
BDropLimbs(a, k) == IF k >= Len(a) THEN <<>> ELSE SubSeq(a, k + 1, Len(a))

\* floor(d / 2^r), for 0 < r < LimbBits
BShrBits(d, r) ==
  BTrim([i \in 1..Len(d) |->
          (d[i] \div Pow2(r)) + (Limb(d, i + 1) % Pow2(r)) * Pow2(LimbBits - r)])

BShr(a, n) ==
  IF n % LimbBits = 0 THEN BDropLimbs(a, n \div LimbBits)
  ELSE BShrBits(BDropLimbs(a, n \div LimbBits), n % LimbBits)

BBitLen(a) == IF a = <<>> THEN 0 ELSE LimbBits * (Len(a) - 1) + NatBitLen(a[Len(a)])

\* bit i of a (bit 0 is the lowest)
BBit(a, i) == (Limb(a, (i \div LimbBits) + 1) \div Pow2(i % LimbBits)) % 2

\* whether the n lowest bits of a are all 0
BLowZero(a, n) ==
  /\ \A i \in 1..(n \div LimbBits) : Limb(a, i) = 0
  /\ Limb(a, (n \div LimbBits) + 1) % Pow2(n % LimbBits) = 0

BOdd(a) == Limb(a, 1) % 2 = 1

\* One step of a binary long division by b: from <<quotient, remainder>> with
\* remainder < b to the pair with one more quotient bit.
BDivBit(q, r2, b) ==
  IF BCmp(r2, b) >= 0
  THEN <<BDouble(q, 1), BSub(r2, b)>>
  ELSE <<BDouble(q, 0), r2>>

BDivStep(qr, b) == BDivBit(qr[1], BDouble(qr[2], 0), b)

\* k steps of it: <<floor((q*b + r) * 2^k / b), remainder>>.  Once the
\* remainder is 0 every further quotient bit is 0.
RECURSIVE BDivBits(_, _, _)
BDivRest(h, b, k) ==
  IF h[2] = <<>> THEN <<BShl(h[1], k), <<>>>> ELSE BDivBits(h, b, k)

BDivBits(qr, b, k) ==
  IF k = 0 THEN qr
  ELSE IF k = 1 THEN BDivStep(qr, b)
  ELSE BDivRest(BDivBits(qr, b, k \div 2), b, k - (k \div 2))

(***************************************************************************)
(* binary64.  A float is [s, m, e] with value s * m * 2^e: s is 1 or -1,   *)
(* m is a mantissa of exactly MantBits bits, and zero is [1, <<>>, 0].     *)
(* Infinities, NaNs and subnormals are outside the values the scoring core *)
(* computes with and are not represented.                                  *)
(***************************************************************************)
MantBits == NatBitLen(Base - 1) * 3 + 8

FZero == [s |-> 1, m |-> <<>>, e |-> 0]

\* The float nearest to s * (n + f) * 2^e, ties to even, where 0 <= f < 1 and
\* f > 0 iff sticky.  With sticky, n has more than MantBits + 1 bits.
\* the float of a mantissa q of MantBits bits, or of MantBits + 1 bits after a
\* round up that carried
FPack(s, q, e) ==
  IF BBitLen(q) > MantBits
  THEN [s |-> s, m |-> BShr(q, 1), e |-> e + 1]
  ELSE [s |-> s, m |-> q, e |-> e]

\* q is floor(n / 2^d): whether the d bits cut off round it up
RoundsUp(n, d, q, sticky) ==
  BBit(n, d - 1) = 1 /\ (sticky \/ ~BLowZero(n, d - 1) \/ BOdd(q))

FRoundCut(s, n, e, sticky, d, q) ==
  FPack(s, IF RoundsUp(n, d, q, sticky) THEN BAdd(q, <<1>>) ELSE q, e + d)

FRoundLen(s, n, e, sticky, len) ==
  IF len = 0 THEN FZero
  ELSE IF len <= MantBits
  THEN [s |-> s, m |-> BShl(n, MantBits - len), e |-> e - (MantBits - len)]
  ELSE FRoundCut(s, n, e, sticky, len - MantBits, BShr(n, len - MantBits))

FRound(s, n, e, sticky) == FRoundLen(s, n, e, sticky, BBitLen(n))

\* float(n) for a Python int n
FInt(n) == FRound(IF n < 0 THEN -1 ELSE 1, BFromNat(IF n < 0 THEN -n ELSE n), 0, FALSE)

FNeg(x) == IF x.m = <<>> THEN x ELSE [x EXCEPT !.s = -x.s]

\* x * y
FMul(x, y) ==
  IF x.m = <<>> \/ y.m = <<>> THEN FZero
  ELSE FRound(x.s * y.s, BMul(x.m, y.m), x.e + y.e, FALSE)

\* x / y, for y # 0
\* the first quotient bit of a / b and the remainder, for mantissas a and b
BDivFirst(a, b) == IF BCmp(a, b) >= 0 THEN <<<<1>>, BSub(a, b)>> ELSE <<<<>>, a>>

FDivRound(s, qr, e) == FRound(s, qr[1], e, qr[2] # <<>>)

FDiv(x, y) ==
  IF x.m = <<>> THEN FZero
  ELSE FDivRound(x.s * y.s, BDivBits(BDivFirst(x.m, y.m), y.m, MantBits + 2),
                 x.e - y.e - (MantBits + 2))

\* -1, 0 or 1 as |x| < |y|, |x| = |y| or |x| > |y|
FCmpAbs(x, y) ==
  IF x.m = <<>> THEN (IF y.m = <<>> THEN 0 ELSE -1)
  ELSE IF y.m = <<>> THEN 1
  ELSE IF x.e < y.e THEN -1
  ELSE IF x.e > y.e THEN 1
  ELSE BCmp(x.m, y.m)

\* -1, 0 or 1 as x < y, x = y or x > y
FCmp(x, y) ==
  IF x.m = <<>> THEN (IF y.m = <<>> THEN 0 ELSE -y.s)
  ELSE IF y.m = <<>> THEN x.s
  ELSE IF x.s # y.s THEN x.s
  ELSE x.s * FCmpAbs(x, y)

FLt(x, y) == FCmp(x, y) < 0
FLe(x, y) == FCmp(x, y) <= 0
FGe(x, y) == FCmp(x, y) >= 0
FGt(x, y) == FCmp(x, y) > 0

\* x + y
\* big + small, for |big| >= |small| > 0
FAddOrdered(big, small) ==
  IF big.e - small.e > MantBits + 2 THEN big
  ELSE FRound(big.s,
              IF big.s = small.s
              THEN BAdd(BShl(big.m, big.e - small.e), small.m)
              ELSE BSub(BShl(big.m, big.e - small.e), small.m),
              small.e, FALSE)

FAdd(x, y) ==
  IF x.m = <<>> THEN y
  ELSE IF y.m = <<>> THEN x
  ELSE IF FCmpAbs(x, y) >= 0 THEN FAddOrdered(x, y)
  ELSE FAddOrdered(y, x)

FSub(x, y) == FAdd(x, FNeg(y))

\* the float of the decimal literal n / 10^k: the float nearest to it
Dec(n, k) == FDiv(FInt(n), FInt(10 ^ k))

\* The numeric literals of the source that enter float arithmetic: under
\* <<n, k>>, the float of the literal n / 10^k, which is Dec(n, k).
Literals ==
  <<40, 2>> :> [s |-> 1, m |-> <<6554, 13107, 26214, 204>>, e |-> -54]
  @@ <<25, 2>> :> [s |-> 1, m |-> <<0, 0, 0, 128>>, e |-> -54]
  @@ <<15, 2>> :> [s |-> 1, m |-> <<13107, 26214, 19660, 153>>, e |-> -55]
  @@ <<12, 2>> :> [s |-> 1, m |-> <<7864, 22282, 24903, 245>>, e |-> -56]
  @@ <<8, 2>> :> [s |-> 1, m |-> <<5243, 3932, 27525, 163>>, e |-> -56]
  @@ <<75, 2>> :> [s |-> 1, m |-> <<0, 0, 0, 192>>, e |-> -53]
  @@ <<60, 2>> :> [s |-> 1, m |-> <<13107, 26214, 19660, 153>>, e |-> -53]
  @@ <<30, 2>> :> [s |-> 1, m |-> <<13107, 26214, 19660, 153>>, e |-> -54]
  @@ <<10, 2>> :> [s |-> 1, m |-> <<6554, 13107, 26214, 204>>, e |-> -56]
  @@ <<20, 2>> :> [s |-> 1, m |-> <<6554, 13107, 26214, 204>>, e |-> -55]
  @@ <<70, 2>> :> [s |-> 1, m |-> <<26214, 19660, 6553, 179>>, e |-> -53]
  @@ <<22, 2>> :> [s |-> 1, m |-> <<23593, 1310, 9175, 225>>, e |-> -55]
  @@ <<18, 2>> :> [s |-> 1, m |-> <<22282, 24903, 10485, 184>>, e |-> -55]
  @@ <<4, 2>> :> [s |-> 1, m |-> <<5243, 3932, 27525, 163>>, e |-> -57]
  @@ <<3, 2>> :> [s |-> 1, m |-> <<7864, 22282, 24903, 245>>, e |-> -58]
  @@ <<35, 2>> :> [s |-> 1, m |-> <<26214, 19660, 6553, 179>>, e |-> -54]
  @@ <<65, 1>> :> [s |-> 1, m |-> <<0, 0, 0, 208>>, e |-> -50]
  @@ <<57, 1>> :> [s |-> 1, m |-> <<19661, 6553, 13107, 182>>, e |-> -50]
  @@ <<45, 1>> :> [s |-> 1, m |-> <<0, 0, 0, 144>>, e |-> -50]
  @@ <<5, 1>> :> [s |-> 1, m |-> <<0, 0, 0, 128>>, e |-> -53]
  @@ <<35, 1>> :> [s |-> 1, m |-> <<0, 0, 0, 224>>, e |-> -51]
  @@ <<1, 0>> :> [s |-> 1, m |-> <<0, 0, 0, 128>>, e |-> -52]
  @@ <<2, 0>> :> [s |-> 1, m |-> <<0, 0, 0, 128>>, e |-> -51]
  @@ <<3, 0>> :> [s |-> 1, m |-> <<0, 0, 0, 192>>, e |-> -51]
  @@ <<4, 0>> :> [s |-> 1, m |-> <<0, 0, 0, 128>>, e |-> -50]
  @@ <<5, 0>> :> [s |-> 1, m |-> <<0, 0, 0, 160>>, e |-> -50]
  @@ <<8, 0>> :> [s |-> 1, m |-> <<0, 0, 0, 128>>, e |-> -49]
  @@ <<15, 0>> :> [s |-> 1, m |-> <<0, 0, 0, 240>>, e |-> -49]
  @@ <<20, 0>> :> [s |-> 1, m |-> <<0, 0, 0, 160>>, e |-> -48]
  @@ <<25, 0>> :> [s |-> 1, m |-> <<0, 0, 0, 200>>, e |-> -48]
  @@ <<30, 0>> :> [s |-> 1, m |-> <<0, 0, 0, 240>>, e |-> -48]
  @@ <<35, 0>> :> [s |-> 1, m |-> <<0, 0, 0, 140>>, e |-> -47]
  @@ <<60, 0>> :> [s |-> 1, m |-> <<0, 0, 0, 240>>, e |-> -47]
  @@ <<80, 0>> :> [s |-> 1, m |-> <<0, 0, 0, 160>>, e |-> -46]
  @@ <<90, 0>> :> [s |-> 1, m |-> <<0, 0, 0, 180>>, e |-> -46]
  @@ <<94, 0>> :> [s |-> 1, m |-> <<0, 0, 0, 188>>, e |-> -46]
  @@ <<100, 0>> :> [s |-> 1, m |-> <<0, 0, 0, 200>>, e |-> -46]
  @@ <<102, 0>> :> [s |-> 1, m |-> <<0, 0, 0, 204>>, e |-> -46]
  @@ <<120, 0>> :> [s |-> 1, m |-> <<0, 0, 0, 240>>, e |-> -46]
  @@ <<126, 0>> :> [s |-> 1, m |-> <<0, 0, 0, 252>>, e |-> -46]
  @@ <<130, 0>> :> [s |-> 1, m |-> <<0, 0, 0, 130>>, e |-> -45]
  @@ <<140, 0>> :> [s |-> 1, m |-> <<0, 0, 0, 140>>, e |-> -45]
  @@ <<150, 0>> :> [s |-> 1, m |-> <<0, 0, 0, 150>>, e |-> -45]
  @@ <<200, 0>> :> [s |-> 1, m |-> <<0, 0, 0, 200>>, e |-> -45]
  @@ <<240, 0>> :> [s |-> 1, m |-> <<0, 0, 0, 240>>, e |-> -45]
  @@ <<500, 0>> :> [s |-> 1, m |-> <<0, 0, 0, 250>>, e |-> -44]
  @@ <<25, 1>> :> [s |-> 1, m |-> <<0, 0, 0, 160>>, e |-> -51]
  @@ <<7609, 2>> :> [s |-> 1, m |-> <<10486, 7864, 5898, 152>>, e |-> -46]
  @@ <<-6, 0>> :> [s |-> -1, m |-> <<0, 0, 0, 192>>, e |-> -50]
  @@ <<-10, 0>> :> [s |-> -1, m |-> <<0, 0, 0, 160>>, e |-> -49]

\* every entry of Literals is the float nearest to its decimal literal
LiteralsExact == \A p \in DOMAIN Literals : Literals[p] = Dec(p[1], p[2])

D(n, k) == Literals[<<n, k>>]

\* floor(|x|) as a natural number, for |x| < 2^31
BToNat(n) == Limb(n, 1) + Limb(n, 2) * Base + Limb(n, 3) * Base * Base

FFloorAbs(x) ==
  IF x.m = <<>> THEN 0
  ELSE BToNat(IF x.e >= 0 THEN BShl(x.m, x.e) ELSE BShr(x.m, -x.e))

\* whether x is a whole number
FIsWhole(x) == x.m = <<>> \/ x.e >= 0 \/ BLowZero(x.m, -x.e)

(***************************************************************************)
(* Python values.  A str is a sequence of chunks: a chunk is one character *)
(* of white space, a digit, a sign or a point, or a whole word or label.   *)
(* A mapping `ui` is a function on FieldNames; a key the dict does not     *)
(* hold maps to None, which is what ui.get(key) returns for it.            *)
(***************************************************************************)
None == [t |-> "none"]
PyBool(b) == [t |-> "bool", v |-> b]
PyInt(n) == [t |-> "int", v |-> n]
PyFloat(x) == [t |-> "float", v |-> x]
PyStr(s) == [t |-> "str", v |-> s]
PyList(l) == [t |-> "list", v |-> l]

\* a label as a str: one chunk
Label(w) == PyStr(<<w>>)

\* bool(x)
Truthy(x) ==
  CASE x.t = "none"  -> FALSE
    [] x.t = "bool"  -> x.v
    [] x.t = "int"   -> x.v # 0
    [] x.t = "float" -> x.v.m # <<>>
    [] x.t = "str"   -> x.v # <<>>
    [] x.t = "list"  -> x.v # <<>>

\* `x is False`, `x is True`
IsFalse(x) == x.t = "bool" /\ ~x.v
IsTrue(x) == x.t = "bool" /\ x.v

\* The outcome of an expression: a value, or the exception it raises.
Ok(v) == [exc |-> "none", v |-> v]
Raise(e) == [exc |-> e, v |-> None]
Raised(r) == r.exc # "none"

IsSpace(c) == c = " "

RECURSIVE LStrip(_)
LStrip(s) == IF s # <<>> /\ IsSpace(Head(s)) THEN LStrip(Tail(s)) ELSE s

RECURSIVE RStrip(_)
RStrip(s) ==
  IF s # <<>> /\ IsSpace(s[Len(s)]) THEN RStrip(SubSeq(s, 1, Len(s) - 1)) ELSE s

\* str.strip()
Strip(s) == RStrip(LStrip(s))

\* (x or "").strip(): only a str has .strip
OrEmptyStrip(x) ==
  IF ~Truthy(x) THEN Ok(<<>>)
  ELSE IF x.t = "str" THEN Ok(Strip(x.v))
  ELSE Raise("AttributeError")

Digits == {"0", "1", "2", "3", "4", "5", "6", "7", "8", "9"}

DigitVal(c) ==
  CASE c = "0" -> 0 [] c = "1" -> 1 [] c = "2" -> 2 [] c = "3" -> 3 [] c = "4" -> 4
    [] c = "5" -> 5 [] c = "6" -> 6 [] c = "7" -> 7 [] c = "8" -> 8 [] c = "9" -> 9

RECURSIVE DigitsVal(_, _)
DigitsVal(s, acc) ==
  IF s = <<>> THEN acc ELSE DigitsVal(Tail(s), 10 * acc + DigitVal(Head(s)))

AllDigits(s) == s # <<>> /\ \A i \in 1..Len(s) : s[i] \in Digits

\* the chunks after an optional sign
Unsigned(s) == IF s # <<>> /\ Head(s) \in {"-", "+"} THEN Tail(s) ELSE s
SignOf(s) == IF s # <<>> /\ Head(s) = "-" THEN -1 ELSE 1

\* int(s) for a str s: white space around, a sign, decimal digits
ParseSigned(sign, u) ==
  IF AllDigits(u) THEN Ok(sign * DigitsVal(u, 0)) ELSE Raise("ValueError")

ParseStripped(t) == ParseSigned(SignOf(t), Unsigned(t))

ParseInt(s) == ParseStripped(Strip(s))

\* the place of the first "." of s, or 0
RECURSIVE PointAt(_, _)
PointAt(s, i) ==
  IF i > Len(s) THEN 0 ELSE IF s[i] = "." THEN i ELSE PointAt(s, i + 1)

\* float(s) for a str s: white space around, a sign, digits with at most one
\* point among them (exponents, "inf" and "nan" are not in the model's strs)
FSigned(sign, x) == IF sign < 0 THEN FNeg(x) ELSE x

\* the float of the digits ds with k of them after the point
ParseDigits(sign, ds, k) ==
  IF AllDigits(ds)
  THEN Ok(FSigned(sign, FDiv(FInt(DigitsVal(ds, 0)), FInt(10 ^ k))))
  ELSE Raise("ValueError")

\* u holds its first point at p, or none if p = 0
ParsePointed(sign, u, p) ==
  IF p = 0 THEN ParseDigits(sign, u, 0)
  ELSE ParseDigits(sign, SubSeq(u, 1, p - 1) \o SubSeq(u, p + 1, Len(u)), Len(u) - p)

ParseUnsigned(sign, u) == ParsePointed(sign, u, PointAt(u, 1))

ParseFloatStripped(t) == ParseUnsigned(SignOf(t), Unsigned(t))

ParseFloat(s) == ParseFloatStripped(Strip(s))

\* int(x)
PyIntOf(x) ==
  CASE x.t = "bool"  -> Ok(IF x.v THEN 1 ELSE 0)
    [] x.t = "int"   -> Ok(x.v)
    [] x.t = "float" -> Ok(x.v.s * FFloorAbs(x.v))
    [] x.t = "str"   -> ParseInt(x.v)
    [] OTHER         -> Raise("TypeError")

\* float(x)
PyFloatOf(x) ==
  CASE x.t = "bool"  -> Ok(IF x.v THEN FInt(1) ELSE FZero)
    [] x.t = "int"   -> Ok(FInt(x.v))
    [] x.t = "float" -> Ok(x.v)
    [] x.t = "str"   -> ParseFloat(x.v)
    [] OTHER         -> Raise("TypeError")

\* safe_int(x, default): a Python value
OrDefault(r, default, t) == IF Raised(r) THEN default ELSE [t |-> t, v |-> r.v]

safe_int(x, default) ==
  IF x.t = "none" THEN default ELSE OrDefault(PyIntOf(x), default, "int")

\* safe_float(x, default): a Python value
safe_float(x, default) ==
  IF x.t = "none" THEN default ELSE OrDefault(PyFloatOf(x), default, "float")

\* the float of a Python number
Num(x) == IF x.t = "int" THEN FInt(x.v) ELSE x.v

\* clamp(x, lo, hi) = max(lo, min(hi, x)) on floats
\* min(a, b) and max(a, b): the first argument unless the second is beyond it
FMinOf(a, b) == IF FLt(b, a) THEN b ELSE a
FMaxOf(a, b) == IF FGt(b, a) THEN b ELSE a

clamp(x, lo, hi) == FMaxOf(lo, FMinOf(hi, x))

F100 == D(100, 0)

\* a scale that falls as raw_points rise: 100 - 100 * raw_points / raw_max
normalize_score_descending(raw_points, raw_max) ==
  IF FLe(raw_max, FZero) THEN FZero
  ELSE clamp(FSub(F100, FMul(F100, FDiv(raw_points, raw_max))), FZero, F100)

\* normalize_score(raw_points, raw_max)
normalize_score(raw_points, raw_max) ==
  IF FLe(raw_max, FZero) THEN FZero
  ELSE clamp(FMul(F100, FDiv(raw_points, raw_max)), FZero, F100)

(***************************************************************************)
(* The entry scorers.  Each takes a mapping ui and gives the outcome of    *)
(* the call: the normalized score, or the exception that ends it.  The     *)
(* steps of a scorer are the statements that add to `raw`, in program      *)
(* order; the first step that raises ends the call.                        *)
(***************************************************************************)
RECURSIVE SumSteps(_, _, _)
SumSteps(steps, i, acc) ==
  IF i > Len(steps) THEN Ok(acc)
  ELSE IF Raised(steps[i]) THEN steps[i]
  ELSE SumSteps(steps, i + 1, acc + steps[i].v)

\* the if/elif chain on the stripped label of a field: the points of the
\* label the table holds, 0 for any other
TablePoints(r, table) ==
  IF Raised(r) THEN r
  ELSE Ok(IF Len(r.v) = 1 /\ r.v[1] \in DOMAIN table THEN table[r.v[1]] ELSE 0)

LabelPoints(x, table) == TablePoints(OrEmptyStrip(x), table)

\* symptom_map.get(s, 0) for one element of a list
MapGet(table, s) ==
  IF s.t = "str" /\ Len(s.v) = 1 /\ s.v[1] \in DOMAIN table THEN table[s.v[1]] ELSE 0

RECURSIVE MapSum(_, _, _)
MapSum(table, l, i) ==
  IF i > Len(l) THEN 0 ELSE MapGet(table, l[i]) + MapSum(table, l, i + 1)

\* symptoms = x or []; for s in symptoms: points += symptom_map.get(s, 0).
\* A number or True is not iterable, a list is not hashable, and the
\* characters of a str are keys the map does not hold.
SymptomPoints(x, table) ==
  IF ~Truthy(x) THEN Ok(0)
  ELSE IF x.t = "str" THEN Ok(0)
  ELSE IF x.t = "list"
  THEN IF \E i \in 1..Len(x.v) : x.v[i].t = "list" THEN Raise("TypeError")
       ELSE Ok(MapSum(table, x.v, 1))
  ELSE Raise("TypeError")

RECURSIVE CharCount(_)
CharCount(s) == IF s = <<>> THEN 0 ELSE Len(Head(s)) + CharCount(Tail(s))

\* len(x or [])
LenOrEmpty(x) ==
  IF ~Truthy(x) THEN Ok(0)
  ELSE IF x.t = "list" THEN Ok(Len(x.v))
  ELSE IF x.t = "str" THEN Ok(CharCount(x.v))
  ELSE Raise("TypeError")

Min(a, b) == IF a <= b THEN a ELSE b

Points(c, n) == Ok(IF c THEN n ELSE 0)

RAW_MAX_workspace == 100
RAW_MAX_eye == 110
RAW_MAX_hydration == 100
RAW_MAX_msk == 120
RAW_MAX_baseline == 110
RAW_MAX_longitudinal == 140

\* the outcome of a scorer from its steps: normalize_score(raw, RAW_MAX)
Normalized(raw, raw_max) ==
  IF Raised(raw) THEN raw ELSE Ok(normalize_score(FInt(raw.v), FInt(raw_max)))

Scored(steps, raw_max) == Normalized(SumSteps(steps, 1, 0), raw_max)

score_workspace_entry(ui) ==
  Scored(<<
    Points(IsFalse(ui["good_posture"]), 18),
    LabelPoints(ui["breaks"],
                "Some breaks" :> 8 @@ "Few breaks" :> 16 @@ "No breaks" :> 24),
    LabelPoints(ui["monitor_height"],
                "Slightly Below Eye Level" :> 6 @@ "Below Eye Level (Looking Down)" :> 14
                @@ "Above Eye Level" :> 10),
    Points(IsFalse(ui["lumbar_support"]), 10),
    LabelPoints(ui["feet_position"],
                "Not Supported / Dangling" :> 8 @@ "Crossed / Tucked" :> 6),
    LabelPoints(ui["input_device"], "Standard Mouse" :> 4 @@ "Trackpad" :> 10),
    LabelPoints(ui["keyboard_type"], "Laptop Keyboard" :> 8),
    LabelPoints(ui["wrist_support"], "No" :> 6),
    LabelPoints(ui["armrests"],
                "Level with desk" :> 2 @@ "Too low" :> 6 @@ "Too high" :> 6
                @@ "None" :> 6 @@ "No" :> 6),
    Points(IsTrue(ui["eat_at_desk"]), 6),
    LabelPoints(ui["noise_level"], "Hum/White Noise" :> 3 @@ "Distracting/Loud" :> 10),
    LabelPoints(ui["temperature"], "Cold" :> 6 @@ "Hot" :> 6),
    LabelPoints(ui["clutter"], "Average" :> 3 @@ "Cluttered" :> 8)
  >>, RAW_MAX_workspace)

\* (ui.get("session_length") or note_or_empty(...)).strip(): the module defines
\* no note_or_empty, so evaluating the right operand raises NameError
SessionLabel(x) ==
  IF ~Truthy(x) THEN Raise("NameError")
  ELSE IF x.t = "str" THEN Ok(Strip(x.v))
  ELSE Raise("AttributeError")

SessionPoints(x) ==
  TablePoints(SessionLabel(x), "1-2 hours" :> 8 @@ "2-4 hours" :> 16 @@ "4+ hours" :> 24)

eye_symptom_map ==
  "Dryness / Gritty feeling" :> 8 @@ "Blurred Vision (end of day)" :> 10
  @@ "Headache (behind eyes)" :> 12 @@ "Eye Twitching" :> 8 @@ "Watery Eyes" :> 6
  @@ "Burning / Irritation" :> 8 @@ "Difficulty focusing" :> 10

\* raw += strain * 4
StrainPoints(x) == Ok(safe_int(x, PyInt(0)).v * 4)

\* raw += min(symptom_points, cap)
Capped(r, cap) == IF Raised(r) THEN r ELSE Ok(Min(r.v, cap))

CappedSymptoms(x, table, cap) == Capped(SymptomPoints(x, table), cap)

score_eye_entry(ui) ==
  Scored(<<
    StrainPoints(ui["strain_level"]),
    SessionPoints(ui["session_length"]),
    CappedSymptoms(ui["symptoms"], eye_symptom_map, 30),
    LabelPoints(ui["lighting"], "Mixed" :> 6 @@ "Dim" :> 10 @@ "Harsh/Overhead" :> 10),
    LabelPoints(ui["screen_brightness"], "Brighter than room" :> 8 @@ "Too dim" :> 6),
    Points(IsTrue(ui["glare"]), 10),
    Points(IsFalse(ui["distance_check"]), 6),
    LabelPoints(ui["rule_20_20_20"], "Often" :> 4 @@ "Occasionally" :> 10 @@ "Never" :> 16),
    Points(IsTrue(ui["used_drops"]), -2)
  >>, RAW_MAX_eye)

\* the ladder on water = safe_int(water_intake, 0)
WaterLadder(water) ==
  IF water <= 2 THEN 35
  ELSE IF 3 <= water /\ water <= 4 THEN 25
  ELSE IF 5 <= water /\ water <= 6 THEN 15
  ELSE IF 7 <= water /\ water <= 9 THEN 6
  ELSE IF 10 <= water /\ water <= 13 THEN 2
  ELSE 0

WaterPoints(x) == Ok(WaterLadder(safe_int(x, PyInt(0)).v))

\* the chain on caffeine = safe_float(caffeine_intake, 0)
CaffeineLadder(caffeine) ==
  IF FLe(caffeine, D(1, 0)) THEN 0
  ELSE IF caffeine = D(2, 0) THEN 5
  ELSE IF caffeine = D(3, 0) THEN 10
  ELSE IF caffeine = D(4, 0) THEN 15
  ELSE IF FGe(caffeine, D(5, 0)) THEN 20
  ELSE 0

CaffeinePoints(x) == Ok(CaffeineLadder(Num(safe_float(x, PyInt(0)))))

\* the chain on sugary = safe_float(sugary_drinks, 0)
SugaryLadder(sugary) ==
  IF sugary = FZero THEN 0
  ELSE IF sugary = D(1, 0) THEN 5
  ELSE IF sugary = D(2, 0) THEN 10
  ELSE IF sugary = D(3, 0) THEN 15
  ELSE IF FGe(sugary, D(4, 0)) THEN 20
  ELSE 0

SugaryPoints(x) == Ok(SugaryLadder(Num(safe_float(x, PyInt(0)))))

hydration_symptom_map ==
  "Dry Mouth/Lips" :> 8 @@ "Headache" :> 10 @@ "Dizziness" :> 12 @@ "Fatigue" :> 8

score_hydration_entry(ui) ==
  Scored(<<
    WaterPoints(ui["water_intake"]),
    CaffeinePoints(ui["caffeine_intake"]),
    SugaryPoints(ui["sugary_drinks"]),
    Points(IsFalse(ui["bottle_on_desk"]), 6),
    LabelPoints(ui["urine_color"],
                "Yellow (Okay)" :> 6 @@ "Dark Yellow" :> 16 @@ "Amber/Brown" :> 28),
    LabelPoints(ui["thirst_level"],
                "Mildly Thirsty" :> 10 @@ "Very Thirsty / Parched" :> 22),
    CappedSymptoms(ui["symptoms"], hydration_symptom_map, 20)
  >>, RAW_MAX_hydration)

Twice(r) == IF Raised(r) THEN r ELSE Ok(2 * r.v)

\* raw += pain * 4.5, in half points
PainHalfPoints(x) == Ok(safe_int(x, PyInt(0)).v * 9)

\* raw += min(len(x or []) * each, cap)
CappedTimes(r, each, cap) == IF Raised(r) THEN r ELSE Ok(Min(r.v * each, cap))

CappedCount(x, each, cap) == CappedTimes(LenOrEmpty(x), each, cap)

Negated(r) == IF Raised(r) THEN r ELSE Ok(-r.v)

\* pain * 4.5 makes raw a float whose value is a whole number of halves: the
\* steps are summed in half points, and raw = halves / 2 exactly
NormalizedHalves(raw2, raw_max) ==
  IF Raised(raw2) THEN raw2
  ELSE Ok(normalize_score(FDiv(FInt(raw2.v), D(2, 0)), FInt(raw_max)))

score_msk_entry(ui) ==
  NormalizedHalves(SumSteps(<<
        PainHalfPoints(ui["pain_level"]),
        Twice(LabelPoints(ui["onset_timing"],
                "During Work" :> 10 @@ "End of Workday" :> 14 @@ "Morning / On waking" :> 18)),
        Twice(CappedCount(ui["focus_area"], 5, 20)),
        Twice(LabelPoints(ui["pain_nature"],
                "Mild Ache" :> 4 @@ "Stiffness/Tightness" :> 10 @@ "Sharp Pain" :> 16
                @@ "Numbness/Tingling" :> 22)),
        Twice(LabelPoints(ui["neck_rom"], "Limited (Stiff)" :> 10 @@ "Painful Movement" :> 16)),
        Twice(LabelPoints(ui["seated_duration"],
                "1 hour" :> 8 @@ "2 hours" :> 14 @@ "3+ hours" :> 22)),
        Twice(Points(IsTrue(ui["morning_stiffness"]), 10)),
        Twice(Points(IsFalse(ui["good_posture"]), 10)),
        Twice(CappedCount(ui["triggers"], 4, 16)),
        Twice(Points(IsTrue(ui["impact_work"]), 10)),
        Twice(Points(IsTrue(ui["impact_sleep"]), 12)),
        Twice(Negated(CappedCount(ui["relief_methods"], 3, 9)))
      >>, 1, 0), RAW_MAX_msk)

\* bmi = weight_kg / (h_m * h_m) with h_m = height_cm / 100.0, or 0
BmiOf(h_m, weight_kg) == FDiv(weight_kg, FMul(h_m, h_m))

Bmi(height_cm, weight_kg) ==
  IF FGt(height_cm, FZero) /\ FGt(weight_kg, FZero)
  THEN BmiOf(FDiv(height_cm, F100), weight_kg)
  ELSE FZero

BmiLadder(bmi) ==
  IF FGe(bmi, D(35, 0)) THEN 32
  ELSE IF FGe(bmi, D(30, 0)) THEN 22
  ELSE IF FGe(bmi, D(25, 0)) THEN 10
  ELSE 0

BmiPoints(ui) ==
  Ok(BmiLadder(Bmi(Num(safe_float(ui["height"], PyInt(0))),
                   Num(safe_float(ui["weight"], PyInt(0))))))

BpLadder(sys, dia) ==
  IF FGe(sys, D(140, 0)) \/ FGe(dia, D(90, 0)) THEN 24
  ELSE IF FGe(sys, D(130, 0)) \/ FGe(dia, D(80, 0)) THEN 14
  ELSE IF FGe(sys, D(120, 0)) /\ FLt(dia, D(80, 0)) THEN 6
  ELSE 0

BpPoints(ui) ==
  Ok(BpLadder(Num(safe_float(ui["bp_systolic"], PyInt(0))),
              Num(safe_float(ui["bp_diastolic"], PyInt(0)))))

RhrLadder(rhr) ==
  IF FGe(rhr, D(100, 0)) THEN 18
  ELSE IF FGe(rhr, D(90, 0)) THEN 12
  ELSE IF FGe(rhr, D(80, 0)) THEN 6
  ELSE IF FLt(rhr, D(60, 0)) /\ FGt(rhr, FZero) THEN 2
  ELSE 0

RhrPoints(x) == Ok(RhrLadder(Num(safe_float(x, PyInt(0)))))

WaistLadder(waist) ==
  IF FGt(waist, FZero)
  THEN (IF FGe(waist, D(102, 0)) THEN 14
        ELSE IF FGe(waist, D(94, 0)) THEN 10
        ELSE 0)
  ELSE 0

WaistPoints(x) == Ok(WaistLadder(Num(safe_float(x, PyInt(0)))))

score_baseline_entry(ui) ==
  Scored(<<
    BmiPoints(ui),
    BpPoints(ui),
    RhrPoints(ui["rhr"]),
    LabelPoints(ui["activity_level"], "Sedentary" :> 14 @@ "Moderately active" :> 4),
    WaistPoints(ui["waist_cm"])
  >>, RAW_MAX_baseline)

\* a ladder of descending thresholds: the points of the first one x reaches
RECURSIVE Ladder(_, _, _)
Ladder(x, rungs, i) ==
  IF i > Len(rungs) THEN 0
  ELSE IF FGe(x, rungs[i][1]) THEN rungs[i][2]
  ELSE Ladder(x, rungs, i + 1)

LabPoints(x, rungs) == Ok(Ladder(Num(safe_float(x, PyInt(0))), rungs, 1))

\* 0 < x < limit
LowPoints(v, limit) == IF FGt(v, FZero) /\ FLt(v, limit) THEN 10 ELSE 0

LowVitaminPoints(x, limit) == Ok(LowPoints(Num(safe_float(x, PyInt(0))), limit))

score_longitudinal_entry(ui) ==
  Scored(<<
    LabPoints(ui["glucose"], <<<<D(126, 0), 24>>, <<D(100, 0), 12>>>>),
    LabPoints(ui["hba1c"], <<<<D(65, 1), 28>>, <<D(57, 1), 14>>>>),
    LabPoints(ui["cholesterol"], <<<<D(240, 0), 20>>, <<D(200, 0), 10>>>>),
    LabPoints(ui["triglycerides"],
              <<<<D(500, 0), 30>>, <<D(200, 0), 20>>, <<D(150, 0), 10>>>>),
    LowVitaminPoints(ui["vit_d"], D(20, 0)),
    LowVitaminPoints(ui["vit_b12"], D(200, 0))
  >>, RAW_MAX_longitudinal)

FieldNames ==
  { "good_posture", "breaks", "monitor_height", "lumbar_support", "feet_position",
    "input_device", "keyboard_type", "wrist_support", "armrests", "eat_at_desk",
    "noise_level", "temperature", "clutter",
    "strain_level", "session_length", "symptoms", "lighting", "screen_brightness",
    "glare", "distance_check", "rule_20_20_20", "used_drops",
    "water_intake", "caffeine_intake", "sugary_drinks", "bottle_on_desk",
    "urine_color", "thirst_level",
    "pain_level", "onset_timing", "focus_area", "pain_nature", "neck_rom",
    "seated_duration", "morning_stiffness", "triggers", "impact_work",
    "impact_sleep", "relief_methods",
    "height", "weight", "bp_systolic", "bp_diastolic", "rhr", "activity_level",
    "waist_cm",
    "glucose", "hba1c", "cholesterol", "triglycerides", "vit_d", "vit_b12",
    "sleep_hours", "completed", "workday_health_index" }

\* the empty mapping {}
EmptyUi == [f \in FieldNames |-> None]

\* A row of a history is a record of the keys it holds: "timestamp",
\* "user_input" and, in the flat rows of a log, fields of its own.
\* row.get(k)
RowGet(row, k) == IF k \in DOMAIN row THEN row[k] ELSE None

\* row.get("user_input", {})
UserInput(row) == IF "user_input" \in DOMAIN row THEN row.user_input ELSE EmptyUi

\* row.get("user_input", row)
UserInputOrRow(row) ==
  IF "user_input" \in DOMAIN row THEN row.user_input
  ELSE [f \in FieldNames |-> RowGet(row, f)]

(***************************************************************************)
(* The temporal aggregators.  A history is a sequence of entries, oldest   *)
(* first; an entry is [timestamp, user_input].                             *)
(***************************************************************************)
\* sum(xs): the floats added left to right, from 0
RECURSIVE FSumFrom(_, _, _)
FSumFrom(xs, i, acc) ==
  IF i > Len(xs) THEN acc ELSE FSumFrom(xs, i + 1, FAdd(acc, xs[i]))

FSum(xs) == FSumFrom(xs, 1, FZero)

\* max(xs) of a non-empty list
RECURSIVE FMaxFrom(_, _, _)
FMaxFrom(xs, i, best) ==
  IF i > Len(xs) THEN best
  ELSE FMaxFrom(xs, i + 1, IF FGt(xs[i], best) THEN xs[i] ELSE best)

FMax(xs) == FMaxFrom(xs, 2, xs[1])

Reversed(xs) == [i \in 1..Len(xs) |-> xs[Len(xs) + 1 - i]]

\* xs[:n] and xs[-n:]
Prefix(xs, n) == SubSeq(xs, 1, Min(n, Len(xs)))
Suffix(xs, n) == SubSeq(xs, IF Len(xs) > n THEN Len(xs) - n + 1 ELSE 1, Len(xs))

\* get_last_n(history, n)
get_last_n(history, n) == IF history = <<>> THEN <<>> ELSE Suffix(history, n)

\* the weighted sum not divided by the weights' total: right only for
\* weights that sum to 1
WeightedUnnormalized(scores, weights, total_w) ==
  IF FLe(total_w, FZero) THEN Ok(FZero)
  ELSE Ok(FSum([i \in 1..Len(scores) |-> FMul(scores[i], weights[i])]))

\* sum(s * w for s, w in zip(scores, weights)) / total_w, or 0.0
WeightedOver(scores, weights, total_w) ==
  IF FLe(total_w, FZero) THEN Ok(FZero)
  ELSE Ok(FDiv(FSum([i \in 1..Len(scores) |-> FMul(scores[i], weights[i])]), total_w))

\* weighted_average(scores, weights)
weighted_average(scores, weights) ==
  IF scores = <<>> THEN Ok(FZero)
  ELSE IF Len(scores) # Len(weights) THEN Raise("ValueError")
  ELSE WeightedOver(scores, weights, FSum(weights))

\* clamp(r, 0, 100) of an outcome r
Clamped(r) == IF Raised(r) THEN r ELSE Ok(clamp(r.v, FZero, F100))

\* [0.40, 0.25, 0.15, 0.12, 0.08]
base_weights == <<D(40, 2), D(25, 2), D(15, 2), D(12, 2), D(8, 2)>>

\* final = 0.75 * wavg + 0.25 * max_score, clamped
SpikeBlend(wavg, scores) ==
  IF Raised(wavg) THEN wavg
  ELSE Ok(clamp(FAdd(FMul(D(75, 2), wavg.v), FMul(D(25, 2), FMax(scores))),
                FZero, F100))

\* the recency-weighted average alone, without the spike term
recent_score_without_spike(scores) ==
  IF scores = <<>> THEN Ok(FZero)
  ELSE Clamped(weighted_average(Reversed(scores), Prefix(base_weights, Len(scores))))

\* compute_weighted_recent_score(scores), scores oldest first
compute_weighted_recent_score(scores) ==
  IF scores = <<>> THEN Ok(FZero)
  ELSE SpikeBlend(weighted_average(Reversed(scores), Prefix(base_weights, Len(scores))),
                  scores)

\* the score functions with a placeholder that scores every entry 100.0
ApplyScoreFnPlaceholderHigh(score_fn, ui) ==
  CASE score_fn = "score_workspace_entry"    -> score_workspace_entry(ui)
    [] score_fn = "score_eye_entry"          -> score_eye_entry(ui)
    [] score_fn = "score_hydration_entry"    -> score_hydration_entry(ui)
    [] score_fn = "score_msk_entry"          -> score_msk_entry(ui)
    [] score_fn = "score_baseline_entry"     -> score_baseline_entry(ui)
    [] score_fn = "score_longitudinal_entry" -> score_longitudinal_entry(ui)
    [] score_fn = "zero"                     -> Ok(F100)

\* score_fn(ui), for the functions compute_all_scores passes; "zero" is
\* lambda ui: 0.0
ApplyScoreFn(score_fn, ui) ==
  CASE score_fn = "score_workspace_entry"    -> score_workspace_entry(ui)
    [] score_fn = "score_eye_entry"          -> score_eye_entry(ui)
    [] score_fn = "score_hydration_entry"    -> score_hydration_entry(ui)
    [] score_fn = "score_msk_entry"          -> score_msk_entry(ui)
    [] score_fn = "score_baseline_entry"     -> score_baseline_entry(ui)
    [] score_fn = "score_longitudinal_entry" -> score_longitudinal_entry(ui)
    [] score_fn = "zero"                     -> Ok(FZero)

\* [score_fn(row.get("user_input", {})) for row in rows]: the list, or the
\* first exception
FirstRaised(rs) ==
  IF \E i \in 1..Len(rs) : Raised(rs[i])
  THEN rs[CHOOSE i \in 1..Len(rs) : Raised(rs[i]) /\ \A j \in 1..(i - 1) : ~Raised(rs[j])]
  ELSE Ok([i \in 1..Len(rs) |-> rs[i].v])

EntryScores(rows, score_fn) ==
  FirstRaised([i \in 1..Len(rows) |-> ApplyScoreFn(score_fn, UserInput(rows[i]))])

window == 5

\* tab_score_from_history(history, score_fn, window)
RecentOf(entry_scores) ==
  IF Raised(entry_scores) THEN entry_scores
  ELSE compute_weighted_recent_score(entry_scores.v)

tab_score_from_history(history, score_fn, n) ==
  IF history = <<>> THEN Ok(FZero)
  ELSE RecentOf(EntryScores(get_last_n(history, n), score_fn))

\* [0.60, 0.30, 0.10]
workspace_weights == <<D(60, 2), D(30, 2), D(10, 2)>>

\* workspace_score_from_history(history)
WorkspaceAverage(scores) ==
  IF Raised(scores) THEN scores
  ELSE Clamped(weighted_average(Reversed(scores.v),
                                Prefix(workspace_weights, Len(scores.v))))

\* [score_workspace_entry(row.get("user_input", {})) for row in rows]
WorkspaceScores(rows) ==
  FirstRaised([i \in 1..Len(rows) |-> score_workspace_entry(UserInput(rows[i]))])

workspace_score_from_history(history) ==
  IF history = <<>> THEN Ok(FZero)
  ELSE WorkspaceAverage(WorkspaceScores(get_last_n(history, 3)))

\* history[-1] taken without the guard for an empty history
baseline_latest_unguarded(history) ==
  IF history = <<>> THEN Raise("IndexError")
  ELSE score_baseline_entry(UserInput(history[Len(history)]))

\* baseline_score_from_history(history)
baseline_score_from_history(history) ==
  IF history = <<>> THEN Ok(FZero)
  ELSE score_baseline_entry(UserInput(history[Len(history)]))

\* trend_penalty(values), values oldest first
ChangePenalty(change) ==
  IF FGe(change, D(20, 2)) THEN D(15, 0)
  ELSE IF FGe(change, D(10, 2)) THEN D(8, 0)
  ELSE IF FLe(change, FNeg(D(10, 2))) THEN D(-6, 0)
  ELSE FZero

TrendOf(prev, last) ==
  IF FLe(prev, FZero) THEN FZero ELSE ChangePenalty(FDiv(FSub(last, prev), prev))

trend_penalty(values) ==
  IF Len(values) < 2 THEN FZero
  ELSE TrendOf(values[Len(values) - 1], values[Len(values)])

\* the values of one marker over rows: safe_float(ui.get(marker), 0)
MarkerVals(rows, marker) ==
  [i \in 1..Len(rows) |-> Num(safe_float(UserInput(rows[i])[marker], PyInt(0)))]

\* longitudinal_with_trend(history)
\* the markers the trend is taken of, in the order the code sums them
trend_markers == <<"glucose", "hba1c", "cholesterol", "triglycerides">>

\* penalty = clamp(sum of the markers' trend penalties, -10, 15)
TrendPenalty(rows) ==
  clamp(FSum([k \in 1..Len(trend_markers) |->
                trend_penalty(MarkerVals(rows, trend_markers[k]))]),
        D(-10, 0), D(15, 0))

WithTrend(latest_score, penalty) ==
  IF Raised(latest_score) THEN latest_score
  ELSE Ok(clamp(FAdd(FMul(D(70, 2), latest_score.v),
                     FMul(D(30, 2),
                          clamp(FAdd(latest_score.v, penalty), FZero, F100))),
                FZero, F100))

longitudinal_with_trend(history) ==
  IF history = <<>> THEN Ok(FZero)
  ELSE WithTrend(score_longitudinal_entry(UserInput(history[Len(history)])),
                 TrendPenalty(Suffix(history, 3)))

(***************************************************************************)
(* The Workday Health Index and the global pressure adjustment.            *)
(***************************************************************************)
\* the weights with those of mental and sleep exchanged
whi_weights_swapped ==
  << <<"mental", D(20, 2)>>, <<"sleep", D(22, 2)>>, <<"msk", D(18, 2)>>,
     <<"eye", D(15, 2)>>, <<"hydration", D(10, 2)>>, <<"workspace", D(8, 2)>>,
     <<"baseline", D(4, 2)>>, <<"longitudinal", D(3, 2)>> >>

\* the weights dict of compute_whi, in its order
whi_weights ==
  << <<"mental", D(22, 2)>>, <<"sleep", D(20, 2)>>, <<"msk", D(18, 2)>>,
     <<"eye", D(15, 2)>>, <<"hydration", D(10, 2)>>, <<"workspace", D(8, 2)>>,
     <<"baseline", D(4, 2)>>, <<"longitudinal", D(3, 2)>> >>

\* A dict is the sequence of its <<key, value>> items in insertion order,
\* no key twice.
DictKeys(d) == {d[i][1] : i \in 1..Len(d)}

\* d.get(k, default)
DictGet(d, k, default) ==
  IF k \in DictKeys(d) THEN d[CHOOSE i \in 1..Len(d) : d[i][1] = k][2] ELSE default

\* the loop of compute_whi: <<total, total_w>> after the weights from i on
RECURSIVE WhiLoop(_, _, _, _)
WhiLoop(scores, i, total, total_w) ==
  IF i > Len(whi_weights) THEN <<total, total_w>>
  ELSE WhiLoop(scores, i + 1,
               FAdd(total, FMul(DictGet(scores, whi_weights[i][1], FZero), whi_weights[i][2])),
               FAdd(total_w, whi_weights[i][2]))

\* compute_whi(scores), scores a dict
WhiOf(total, total_w) ==
  IF FLe(total_w, FZero) THEN FZero ELSE clamp(FDiv(total, total_w), FZero, F100)

WhiOfPair(t) == WhiOf(t[1], t[2])

compute_whi(scores) == WhiOfPair(WhiLoop(scores, 1, FZero, FZero))

\* the blend with the whole WHI: pressure_factor left out
apply_pressure_unscaled(local_score, whi, pressure_factor) ==
  clamp(FAdd(FMul(D(70, 2), local_score), FMul(D(30, 2), whi)), FZero, F100)

\* apply_global_pressure(local_score, whi, pressure_factor)
apply_global_pressure(local_score, whi, pressure_factor) ==
  clamp(FAdd(FMul(D(70, 2), local_score),
             FMul(D(30, 2), FMul(whi, pressure_factor))),
        FZero, F100)

\* round(x, ndigits) of a float: the exact value rounded to ndigits decimals,
\* ties to even, and the float nearest to that decimal
\* n / 2^d rounded to a whole number, ties to even; q is floor(n / 2^d)
RoundedHalfEven(n, d, q) ==
  IF RoundsUp(n, d, q, FALSE) THEN BAdd(q, <<1>>) ELSE q

Rescaled(s, n, d, ndigits) ==
  FDiv(FRound(s, RoundedHalfEven(n, d, BShr(n, d)), 0, FALSE), FInt(10 ^ ndigits))

PyRound(x, ndigits) ==
  IF x.m = <<>> \/ x.e >= 0 THEN x
  ELSE Rescaled(x.s, BMulSmall(x.m, 10 ^ ndigits), -x.e, ndigits)

(***************************************************************************)
(* The weekly metrics.  Time is counted in days.  A timestamp in ISO       *)
(* format is a str that denotes an instant `at`, with a UTC offset         *)
(* (aware) or without; any other value is not a timestamp.                 *)
(***************************************************************************)
IsoStr(n, aware) == [t |-> "str", v |-> <<"<iso>">>, at |-> n, aware |-> aware]

\* parse_ts(ts): the datetime, or None when fromisoformat raises
parse_ts(ts) ==
  IF ts.t = "str" /\ "at" \in DOMAIN ts
  THEN [t |-> "datetime", at |-> ts.at, aware |-> ts.aware]
  ELSE None

\* row.get("timestamp", "")
Timestamp(row) == IF "timestamp" \in DOMAIN row THEN row.timestamp ELSE PyStr(<<>>)

\* the rows of history from i on that test keeps, in order; comparing an
\* aware datetime with the naive datetime.now() raises TypeError
RECURSIVE FilterRows(_, _, _, _, _)
FilterRows(history, i, lo, hi, out) ==
  IF i > Len(history) THEN Ok(out)
  ELSE LET ts == parse_ts(Timestamp(history[i]))
       IN  IF ts = None THEN FilterRows(history, i + 1, lo, hi, out)
           ELSE IF ts.aware THEN Raise("TypeError")
           ELSE FilterRows(history, i + 1, lo, hi,
                           IF lo <= ts.at /\ (hi = None \/ ts.at < hi.at)
                           THEN Append(out, history[i]) ELSE out)

\* filter_last_days(history, days), datetime.now() having returned now:
\* ts >= cutoff
filter_last_days(history, days, now) ==
  FilterRows(history, 1, now - days, None, <<>>)

\* filter_prev_week(history), datetime.now() having returned now:
\* start <= ts < end
filter_prev_week(history, now) ==
  FilterRows(history, 1, now - 14, [at |-> now - 7], <<>>)

\* pct_change(curr, prev) on floats or None
pct_change(curr, prev) ==
  IF prev = None \/ prev.v.m = <<>> THEN None
  ELSE PyFloat(FMul(FDiv(FSub(curr.v, prev.v), prev.v), F100))

\* avg(values), values a list of floats
avg(values) ==
  IF values = <<>> THEN None ELSE PyFloat(FDiv(FSum(values), FInt(Len(values))))

\* round(x, ndigits) of a Python value: None has no __round__
RoundOf(x, ndigits) ==
  IF x = None THEN Raise("TypeError") ELSE Ok(PyFloat(PyRound(x.v, ndigits)))

\* None if x is None else round(x, ndigits)
RoundedOrNone(x, ndigits) ==
  IF x = None THEN None ELSE PyFloat(PyRound(x.v, ndigits))

\* None if (a is None or b is None) else round(a - b, ndigits)
RoundedChange(a, b, ndigits) ==
  IF a = None \/ b = None THEN None ELSE PyFloat(PyRound(FSub(a.v, b.v), ndigits))

\* None if (a is None or b is None) else a - b, on ints
IntChange(a, b) == IF a = None \/ b = None THEN None ELSE PyInt(a.v - b.v)

\* mapping.get(label, None) of seated_duration_to_hours
HoursOf(r) ==
  IF Raised(r) THEN r
  ELSE Ok(CASE r.v = <<"30 min">>   -> PyFloat(D(5, 1))
            [] r.v = <<"1 hour">>   -> PyFloat(D(1, 0))
            [] r.v = <<"2 hours">>  -> PyFloat(D(2, 0))
            [] r.v = <<"3+ hours">> -> PyFloat(D(35, 1))
            [] OTHER                -> None)

\* seated_duration_to_hours(label)
seated_duration_to_hours(label) == HoursOf(OrEmptyStrip(label))

\* extract(h) of compute_sedentary_metric: vals after the rows from i on
RECURSIVE SeatedHours(_, _, _)
SeatedNext(h, i, vals, hours) ==
  IF Raised(hours) THEN hours
  ELSE SeatedHours(h, i + 1, IF hours.v = None THEN vals ELSE Append(vals, hours.v.v))

SeatedHours(h, i, vals) ==
  IF i > Len(h) THEN Ok(vals)
  ELSE SeatedNext(h, i, vals,
                  seated_duration_to_hours(UserInput(h[i])["seated_duration"]))

\* the dict compute_sedentary_metric returns
SedentaryDict(curr_avg, prev_avg, pct) ==
  IF Raised(pct) THEN pct
  ELSE Ok([this_week_avg_seated_block_hours |-> RoundedOrNone(curr_avg, 2),
           last_week_avg_seated_block_hours |-> RoundedOrNone(prev_avg, 2),
           change_hours |-> RoundedChange(curr_avg, prev_avg, 2),
           change_percent |-> pct.v])

SedentaryOfAvgs(curr_avg, prev_avg) ==
  SedentaryDict(curr_avg, prev_avg,
                IF curr_avg = None \/ prev_avg = None THEN Ok(None)
                ELSE RoundOf(pct_change(curr_avg, prev_avg), 1))

SedentaryOf(curr, prev) ==
  IF Raised(curr) THEN curr
  ELSE IF Raised(prev) THEN prev
  ELSE SedentaryOfAvgs(avg(curr.v), avg(prev.v))

\* compute_sedentary_metric(msk_history) after its two filter calls
compute_sedentary_metric(this_week, last_week) ==
  SedentaryOf(SeatedHours(this_week, 1, <<>>), SeatedHours(last_week, 1, <<>>))

Compliant(water, urine, thirst) ==
  IF Raised(urine) THEN urine
  ELSE IF Raised(thirst) THEN thirst
  ELSE Ok(~ \/ FLt(water, D(8, 0))
            \/ urine.v \in {<<"Dark Yellow">>, <<"Amber/Brown">>}
            \/ thirst.v = <<"Very Thirsty / Parched">>)

\* hydration_compliant(ui)
hydration_compliant(ui) ==
  Compliant(Num(safe_float(ui["water_intake"], PyInt(0))),
            OrEmptyStrip(ui["urine_color"]),
            OrEmptyStrip(ui["thirst_level"]))

\* the loop of compliance_rate(h): ok after the rows from i on
RECURSIVE CountCompliant(_, _, _)
CountNext(h, i, ok, c) ==
  IF Raised(c) THEN c ELSE CountCompliant(h, i + 1, IF c.v THEN ok + 1 ELSE ok)

CountCompliant(h, i, ok) ==
  IF i > Len(h) THEN Ok(ok)
  ELSE CountNext(h, i, ok, hydration_compliant(UserInput(h[i])))

\* (ok / len(h)) * 100.0
RateOf(ok, n) ==
  IF Raised(ok) THEN ok ELSE Ok(PyFloat(FMul(FDiv(FInt(ok.v), FInt(n)), F100)))

\* compliance_rate(h) of compute_hydration_metric
compliance_rate(h) ==
  IF h = <<>> THEN Ok(None) ELSE RateOf(CountCompliant(h, 1, 0), Len(h))

HydrationOf(curr, prev) ==
  IF Raised(curr) THEN curr
  ELSE IF Raised(prev) THEN prev
  ELSE Ok([this_week_compliance_percent |-> RoundedOrNone(curr.v, 1),
           last_week_compliance_percent |-> RoundedOrNone(prev.v, 1),
           change_percent_points |-> RoundedChange(curr.v, prev.v, 1)])

\* compute_hydration_metric(hydration_history) after its two filter calls
compute_hydration_metric(this_week, last_week) ==
  HydrationOf(compliance_rate(this_week), compliance_rate(last_week))

\* extract_sleep_hours(h) of compute_sleep_metric: vals after the rows from i on
RECURSIVE SleepHours(_, _, _)
SleepNext(h, i, vals, hrs) ==
  SleepHours(h, i + 1,
             IF hrs # None /\ FGt(hrs.v, FZero) THEN Append(vals, hrs.v) ELSE vals)

SleepHours(h, i, vals) ==
  IF i > Len(h) THEN vals
  ELSE SleepNext(h, i, vals, safe_float(UserInput(h[i])["sleep_hours"], None))

TrendLabel(delta) ==
  IF FGe(delta, D(5, 1)) THEN Label("improving")
  ELSE IF FLe(delta, FNeg(D(5, 1))) THEN Label("worsening")
  ELSE Label("stable")

SleepOf(curr_avg, prev_avg) ==
  Ok([this_week_avg_sleep_hours |-> RoundedOrNone(curr_avg, 2),
      last_week_avg_sleep_hours |-> RoundedOrNone(prev_avg, 2),
      change_hours |-> RoundedChange(curr_avg, prev_avg, 2),
      trend |-> IF curr_avg = None \/ prev_avg = None THEN None
                ELSE TrendLabel(FSub(curr_avg.v, prev_avg.v))])

\* compute_sleep_metric(sleep_history) after its two filter calls
compute_sleep_metric(this_week, last_week) ==
  SleepOf(avg(SleepHours(this_week, 1, <<>>)), avg(SleepHours(last_week, 1, <<>>)))

\* count_completed(h) of compute_reminders_metric
count_completed(h) ==
  IF h = <<>> THEN None
  ELSE PyInt(Cardinality({i \in 1..Len(h) : IsTrue(UserInputOrRow(h[i])["completed"])}))

RemindersOf(curr, prev) ==
  Ok([this_week_completed |-> curr,
      last_week_completed |-> prev,
      change |-> IntChange(curr, prev)])

\* compute_reminders_metric(reminders_history) after its two filter calls
compute_reminders_metric(this_week, last_week) ==
  RemindersOf(count_completed(this_week), count_completed(last_week))

\* score is not None and score >= threshold
IsHigh(score, threshold) == score # None /\ FGe(score.v, FInt(threshold))

\* count_high(h) of compute_high_risk_days
count_high(h, threshold) ==
  IF h = <<>> THEN None
  ELSE PyInt(Cardinality(
         {i \in 1..Len(h) :
            IsHigh(safe_float(UserInputOrRow(h[i])["workday_health_index"], None),
                   threshold)}))

HighRiskOf(curr, prev, threshold) ==
  Ok([threshold |-> PyInt(threshold),
      this_week_high_risk_days |-> curr,
      last_week_high_risk_days |-> prev,
      change |-> IntChange(curr, prev)])

\* compute_high_risk_days(whi_history, threshold) after its two filter calls
compute_high_risk_days(this_week, last_week, threshold) ==
  HighRiskOf(count_high(this_week, threshold), count_high(last_week, threshold),
             threshold)

\* risk_label(score): the label, without the symbol that precedes it
risk_label(score) ==
  IF FGe(score, FInt(80)) THEN "Critical"
  ELSE IF FGe(score, FInt(60)) THEN "High"
  ELSE IF FGe(score, FInt(40)) THEN "Moderate"
  ELSE "Low"

(***************************************************************************)
(* The program as a state machine.  A call of a pure function is one step: *)
(* op names the function, arg holds its arguments and ret its outcome.     *)
(* compute_all_scores and the weekly metrics take several steps; pc is the *)
(* statement the running call is at, "done" once it has ended.             *)
(***************************************************************************)
VARIABLES
  op,            \* the function called last, or running
  arg,           \* its arguments
  ret,           \* its outcome, Ok(None) while it runs
  pc,            \* "idle", or the statement the running call is at
  local_scores,  \* the dict local_scores of compute_all_scores
  whi,           \* the local whi of compute_all_scores
  final_scores,  \* the dict final_scores of compute_all_scores
  now,           \* the wall clock, in days
  this_week,     \* the list this_week of the running weekly metric, or None
  last_week      \* the list last_week of the running weekly metric, or None

vars == <<op, arg, ret, pc, local_scores, whi, final_scores,
          now, this_week, last_week>>

allVars == <<local_scores, whi, final_scores>>
weekVars == <<now, this_week, last_week>>

\* the clock when the program starts: two weeks of history lie behind it
Now0 == 7 + 7

Init ==
  /\ op = "none"
  /\ arg = <<>>
  /\ ret = Ok(None)
  /\ pc = "idle"
  /\ local_scores = <<>>
  /\ whi = FZero
  /\ final_scores = <<>>
  /\ now = Now0
  /\ this_week = None
  /\ last_week = None

\* a call of a pure function f on arguments a, with outcome r; a behaviour
\* is one call
Call(f, a, r) ==
  /\ op' = f
  /\ arg' = a
  /\ ret' = r
  /\ pc' = "done"
  /\ UNCHANGED <<allVars, weekVars>>

(***************************************************************************)
(* The entries the scorers are called on: a base entry (empty, a typical   *)
(* day, the worst day) with one field replaced by a value of any type.     *)
(***************************************************************************)
ScorerFields(fn) ==
  CASE fn = "score_workspace_entry" ->
         {"good_posture", "breaks", "monitor_height", "lumbar_support",
          "feet_position", "input_device", "keyboard_type", "wrist_support",
          "armrests", "eat_at_desk", "noise_level", "temperature", "clutter"}
    [] fn = "score_eye_entry" ->
         {"strain_level", "session_length", "symptoms", "lighting",
          "screen_brightness", "glare", "distance_check", "rule_20_20_20",
          "used_drops"}
    [] fn = "score_hydration_entry" ->
         {"water_intake", "caffeine_intake", "sugary_drinks", "bottle_on_desk",
          "urine_color", "thirst_level", "symptoms"}
    [] fn = "score_msk_entry" ->
         {"pain_level", "onset_timing", "focus_area", "pain_nature", "neck_rom",
          "seated_duration", "morning_stiffness", "good_posture", "triggers",
          "impact_work", "impact_sleep", "relief_methods"}
    [] fn = "score_baseline_entry" ->
         {"height", "weight", "bp_systolic", "bp_diastolic", "rhr",
          "activity_level", "waist_cm"}
    [] fn = "score_longitudinal_entry" ->
         {"glucose", "hba1c", "cholesterol", "triglycerides", "vit_d", "vit_b12"}

\* the fields by the type the scorers read them as
BoolFields ==
  {"good_posture", "lumbar_support", "eat_at_desk", "glare", "distance_check",
   "used_drops", "bottle_on_desk", "morning_stiffness", "impact_work",
   "impact_sleep"}
NumFields ==
  {"strain_level", "water_intake", "caffeine_intake", "sugary_drinks",
   "pain_level", "height", "weight", "bp_systolic", "bp_diastolic", "rhr",
   "waist_cm", "glucose", "hba1c", "cholesterol", "triglycerides", "vit_d",
   "vit_b12", "sleep_hours", "workday_health_index"}
ListFields == {"symptoms", "focus_area", "triggers", "relief_methods"}
LabelFields == FieldNames \ (BoolFields \cup NumFields \cup ListFields \cup {"completed"})

\* a typical day
TypicalUi ==
  [f \in FieldNames |->
     CASE f = "good_posture"   -> PyBool(TRUE)
       [] f = "breaks"         -> Label("Some breaks")
       [] f = "monitor_height" -> Label("Slightly Below Eye Level")
       [] f = "armrests"       -> Label("Level with desk")
       [] f = "strain_level"   -> PyInt(3)
       [] f = "session_length" -> Label("2-4 hours")
       [] f = "symptoms"       -> PyList(<<Label("Headache")>>)
       [] f = "lighting"       -> Label("Mixed")
       [] f = "water_intake"   -> PyInt(6)
       [] f = "caffeine_intake" -> PyInt(2)
       [] f = "urine_color"    -> Label("Yellow (Okay)")
       [] f = "pain_level"     -> PyInt(3)
       [] f = "onset_timing"   -> Label("During Work")
       [] f = "focus_area"     -> PyList(<<Label("Neck")>>)
       [] f = "seated_duration" -> Label("2 hours")
       [] f = "height"         -> PyInt(175)
       [] f = "weight"         -> PyInt(80)
       [] f = "bp_systolic"    -> PyInt(125)
       [] f = "bp_diastolic"   -> PyInt(79)
       [] f = "rhr"            -> PyInt(80)
       [] f = "glucose"        -> PyInt(100)
       [] f = "hba1c"          -> PyFloat(D(57, 1))
       [] f = "cholesterol"    -> PyInt(200)
       [] f = "sleep_hours"    -> PyInt(6)
       [] f = "completed"      -> PyBool(FALSE)
       [] f = "workday_health_index" -> PyInt(40)
       [] OTHER                -> None]

\* the worst day
WorstUi ==
  [f \in FieldNames |->
     CASE f \in {"good_posture", "lumbar_support", "distance_check",
                 "bottle_on_desk", "used_drops"} -> PyBool(FALSE)
       [] f \in {"eat_at_desk", "glare", "morning_stiffness", "impact_work",
                 "impact_sleep"} -> PyBool(TRUE)
       [] f = "breaks"         -> Label("No breaks")
       [] f = "monitor_height" -> Label("Below Eye Level (Looking Down)")
       [] f = "feet_position"  -> Label("Not Supported / Dangling")
       [] f = "input_device"   -> Label("Trackpad")
       [] f = "keyboard_type"  -> Label("Laptop Keyboard")
       [] f = "wrist_support"  -> Label("No")
       [] f = "armrests"       -> Label("None")
       [] f = "noise_level"    -> Label("Distracting/Loud")
       [] f = "temperature"    -> Label("Hot")
       [] f = "clutter"        -> Label("Cluttered")
       [] f = "strain_level"   -> PyInt(10)
       [] f = "session_length" -> Label("4+ hours")
       [] f = "symptoms"       ->
            PyList(<<Label("Blurred Vision (end of day)"), Label("Headache (behind eyes)"),
                     Label("Difficulty focusing"), Label("Dizziness"), Label("Headache"),
                     Label("Fatigue")>>)
       [] f = "lighting"       -> Label("Harsh/Overhead")
       [] f = "screen_brightness" -> Label("Brighter than room")
       [] f = "rule_20_20_20"  -> Label("Never")
       [] f = "water_intake"   -> PyInt(0)
       [] f = "caffeine_intake" -> PyInt(6)
       [] f = "sugary_drinks"  -> PyInt(4)
       [] f = "urine_color"    -> Label("Amber/Brown")
       [] f = "thirst_level"   -> Label("Very Thirsty / Parched")
       [] f = "pain_level"     -> PyInt(10)
       [] f = "onset_timing"   -> Label("Morning / On waking")
       [] f = "focus_area"     ->
            PyList(<<Label("Neck"), Label("Back"), Label("Wrist"), Label("Shoulder")>>)
       [] f = "pain_nature"    -> Label("Numbness/Tingling")
       [] f = "neck_rom"       -> Label("Painful Movement")
       [] f = "seated_duration" -> Label("3+ hours")
       [] f = "triggers"       ->
            PyList(<<Label("a"), Label("b"), Label("c"), Label("d")>>)
       [] f = "height"         -> PyInt(160)
       [] f = "weight"         -> PyInt(120)
       [] f = "bp_systolic"    -> PyInt(150)
       [] f = "bp_diastolic"   -> PyInt(95)
       [] f = "rhr"            -> PyInt(100)
       [] f = "activity_level" -> Label("Sedentary")
       [] f = "waist_cm"       -> PyInt(110)
       [] f = "glucose"        -> PyInt(130)
       [] f = "hba1c"          -> PyInt(7)
       [] f = "cholesterol"    -> PyInt(250)
       [] f = "triglycerides"  -> PyInt(500)
       [] f = "vit_d"          -> PyInt(10)
       [] f = "vit_b12"        -> PyInt(150)
       [] f = "sleep_hours"    -> PyFloat(D(45, 1))
       [] f = "workday_health_index" -> PyInt(65)
       [] OTHER                -> None]

\* a good day
GoodUi ==
  [f \in FieldNames |->
     CASE f \in {"good_posture", "lumbar_support", "distance_check",
                 "bottle_on_desk"} -> PyBool(TRUE)
       [] f = "session_length" -> Label("1-2 hours")
       [] f = "water_intake"   -> PyInt(8)
       [] f = "sleep_hours"    -> PyInt(8)
       [] f = "seated_duration" -> Label("30 min")
       [] f = "completed"      -> PyBool(TRUE)
       [] OTHER                -> None]

BaseEntries == {EmptyUi, TypicalUi, WorstUi}

\* the values a field may hold: of the right type or not
FieldValues ==
  { None, PyBool(TRUE), PyBool(FALSE), PyInt(0), PyInt(5), PyFloat(D(35, 1)),
    PyInt(2), PyFloat(D(25, 1)), PyInt(12),
    Label("abc"), PyStr(<<" ", "7", " ">>), PyStr(<<>>),
    PyList(<<>>), PyList(<<Label("Headache"), Label("Neck")>>) }

ScorerNames ==
  {"score_workspace_entry", "score_eye_entry", "score_hydration_entry",
   "score_msk_entry", "score_baseline_entry", "score_longitudinal_entry"}

\* the arguments of the calls of scorer fn: ui is a base entry with field
\* replaced by value
ScorerArgs(fn) ==
  {[ui |-> [base EXCEPT ![f] = v], field |-> f, value |-> v] :
     base \in BaseEntries, f \in ScorerFields(fn), v \in FieldValues}

ScoreWorkspace ==
  \E a \in ScorerArgs("score_workspace_entry") :
    /\ pc = "idle"
    /\ Call("score_workspace_entry", a, score_workspace_entry(a.ui))

ScoreEye ==
  \E a \in ScorerArgs("score_eye_entry") :
    /\ pc = "idle"
    /\ Call("score_eye_entry", a, score_eye_entry(a.ui))

ScoreHydration ==
  \E a \in ScorerArgs("score_hydration_entry") :
    /\ pc = "idle"
    /\ Call("score_hydration_entry", a, score_hydration_entry(a.ui))

ScoreMsk ==
  \E a \in ScorerArgs("score_msk_entry") :
    /\ pc = "idle"
    /\ Call("score_msk_entry", a, score_msk_entry(a.ui))

ScoreBaseline ==
  \E a \in ScorerArgs("score_baseline_entry") :
    /\ pc = "idle"
    /\ Call("score_baseline_entry", a, score_baseline_entry(a.ui))

ScoreLongitudinal ==
  \E a \in ScorerArgs("score_longitudinal_entry") :
    /\ pc = "idle"
    /\ Call("score_longitudinal_entry", a, score_longitudinal_entry(a.ui))

\* the float next above a positive float whose lowest limb is not full
NextUp(x) == [x EXCEPT !.m = [@ EXCEPT ![1] = @ + 1]]

\* The raw points normalize_score is called on: negative, zero, fractions,
\* sums of a scorer's points, neighbouring floats, and sums above every
\* RAW_MAX.
RawPoints ==
  { FInt(-10), FInt(-6), FZero, D(3, 2), D(5, 1), FInt(1), D(35, 1), D(45, 1),
    FInt(35), NextUp(FInt(35)), FInt(94), FInt(100), NextUp(FInt(100)), FInt(102),
    FInt(120), FInt(126), FInt(500) }

\* the maxima: the RAW_MAX of each scorer, and others of either sign
RawMaxes ==
  { FInt(-10), FZero, D(3, 2), FInt(3), FInt(RAW_MAX_workspace), FInt(RAW_MAX_eye),
    FInt(RAW_MAX_msk), FInt(RAW_MAX_longitudinal) }

CallNormalize ==
  \E raw_points \in RawPoints, raw_max \in RawMaxes :
    /\ pc = "idle"
    /\ Call("normalize_score", [raw_points |-> raw_points, raw_max |-> raw_max],
            Ok(normalize_score(raw_points, raw_max)))

NextScore ==
  \/ ScoreWorkspace
  \/ CallNormalize
  \/ ScoreEye
  \/ ScoreHydration
  \/ ScoreMsk
  \/ ScoreBaseline
  \/ ScoreLongitudinal

SpecScore == Init /\ [][NextScore]_vars

(***************************************************************************)
(* Calls of the aggregators, of compute_whi and of apply_global_pressure.  *)
(***************************************************************************)
\* the longest list of scores and of weights passed to weighted_average
MaxLen == 2
\* the longest list of scores passed to compute_weighted_recent_score
MaxScores == 6
\* the longest history passed to an aggregator
MaxHist == 2

SeqsUpTo(S, n) == UNION {[1..k -> S] : k \in 0..n}

\* entry scores: none, a good day of hydration, the worst
ScoreVals == {FZero, FInt(6), F100}

WeightVals == {D(40, 2), D(25, 2), FZero}

CallWeightedAverage ==
  \E scores \in SeqsUpTo({FInt(6), F100}, MaxLen), weights \in SeqsUpTo(WeightVals, MaxLen) :
    /\ pc = "idle"
    /\ Call("weighted_average", [scores |-> scores, weights |-> weights],
            weighted_average(scores, weights))

CallRecent ==
  \E scores \in SeqsUpTo(ScoreVals, MaxScores) :
    /\ pc = "idle"
    /\ Call("compute_weighted_recent_score", [scores |-> scores],
            compute_weighted_recent_score(scores))

\* an entry of a history file
Entry(ui) == [timestamp |-> IsoStr(1, FALSE), user_input |-> ui]

\* the rows of the histories: an entry per kind of day, and a row that
\* holds no user_input
HistRows ==
  {Entry(ui) : ui \in {EmptyUi, GoodUi, TypicalUi, WorstUi}}
  \cup {[timestamp |-> IsoStr(1, FALSE)]}

Histories == SeqsUpTo(HistRows, MaxHist)

CallTab ==
  \E history \in Histories,
     score_fn \in {"score_eye_entry", "score_hydration_entry", "score_msk_entry", "zero"} :
    /\ pc = "idle"
    /\ Call("tab_score_from_history", [history |-> history, score_fn |-> score_fn],
            tab_score_from_history(history, score_fn, window))

CallWorkspaceHistory ==
  \E history \in Histories :
    /\ pc = "idle"
    /\ Call("workspace_score_from_history", [history |-> history],
            workspace_score_from_history(history))

CallBaselineHistory ==
  \E history \in Histories :
    /\ pc = "idle"
    /\ Call("baseline_score_from_history", [history |-> history],
            baseline_score_from_history(history))

\* Lab entries that differ in glucose alone: not measured, 100, and a rise of
\* 10%, a rise of 25% and a fall of 12% from 100.  Every entry holds a high
\* cholesterol and a low vitamin D, so that its own score is above 0.
LabUi(glucose) ==
  [EmptyUi EXCEPT !["glucose"] = glucose, !["cholesterol"] = PyInt(250),
                  !["vit_d"] = PyInt(10)]

LabRows ==
  {Entry(LabUi(g)) : g \in {None, PyInt(100), PyInt(110), PyInt(125), PyInt(88)}}

\* histories of lab entries, long enough to fill the window of 3 entries
LabHistories == SeqsUpTo(LabRows, MaxHist + 1)

CallLongitudinal ==
  \E history \in Histories \cup LabHistories :
    /\ pc = "idle"
    /\ Call("longitudinal_with_trend", [history |-> history],
            longitudinal_with_trend(history))

\* the keys of local_scores in the order compute_all_scores inserts them
LocalOrder ==
  <<"eye", "hydration", "msk", "workspace", "baseline", "longitudinal",
    "mental", "sleep", "productivity">>

\* the orders in which a dict passed to compute_whi holds its keys
KeyOrders ==
  { LocalOrder, Reversed(LocalOrder),
    <<"mental", "sleep", "msk", "eye", "hydration", "workspace", "baseline",
      "longitudinal">>,
    <<"longitudinal", "workspace", "eye", "sleep", "baseline", "hydration",
      "msk", "mental">>,
    <<"sleep", "msk", "eye">>, <<"eye", "longitudinal", "mental", "hydration">>,
    <<>> }

\* the domains that score high in a dict passed to compute_whi
HighSets == {{}, {"mental"}, {"msk", "eye"}, {"longitudinal", "baseline", "workspace"}}

WhiVals == {FZero, FInt(10), FInt(50), F100}

\* the dict with keys ks in which the domains of hs score hi and the others lo
ScoreDict(ks, hs, lo, hi) ==
  [i \in 1..Len(ks) |-> <<ks[i], IF ks[i] \in hs THEN hi ELSE lo>>]

CallWhi ==
  \E ks \in KeyOrders, hs \in HighSets, lo \in WhiVals, hi \in WhiVals :
    /\ pc = "idle"
    /\ Call("compute_whi", [scores |-> ScoreDict(ks, hs, lo, hi)],
            Ok(compute_whi(ScoreDict(ks, hs, lo, hi))))

CallPressure ==
  \E local_score \in ScoreVals, w \in ScoreVals, pressure_factor \in {FZero, D(35, 2)} :
    /\ pc = "idle"
    /\ Call("apply_global_pressure",
            [local_score |-> local_score, whi |-> w, pressure_factor |-> pressure_factor],
            Ok(apply_global_pressure(local_score, w, pressure_factor)))

(***************************************************************************)
(* compute_all_scores, statement by statement.  Its argument is the data   *)
(* directory: what each tab's file holds.                                  *)
(***************************************************************************)
Missing == [kind |-> "missing"]
Malformed == [kind |-> "malformed"]
JsonObject == [kind |-> "json", list |-> FALSE]
JsonList(rows) == [kind |-> "json", list |-> TRUE, rows |-> rows]

\* load_json_history(filepath), the file holding `file`
load_json_history(file) ==
  IF file.kind = "missing" THEN <<>>
  ELSE IF file.kind = "malformed" THEN <<>>
  ELSE IF file.list THEN file.rows
  ELSE <<>>

\* what the file of a tab may hold
FileChoices(tab) ==
  CASE tab = "eye" ->
         {Missing, JsonList(<<Entry(TypicalUi)>>), JsonList(<<Entry(EmptyUi)>>)}
    [] tab = "hydration" ->
         {Missing, JsonList(<<Entry(GoodUi)>>), JsonList(<<Entry(TypicalUi), Entry(WorstUi)>>)}
    [] tab = "msk" -> {Malformed, JsonList(<<Entry(WorstUi)>>)}
    [] tab = "workspace" -> {Missing, JsonList(<<Entry(TypicalUi), Entry(WorstUi)>>)}
    [] tab = "baseline" -> {JsonObject, JsonList(<<Entry(TypicalUi)>>)}
    [] tab = "longitudinal" -> {Missing, JsonList(<<Entry(TypicalUi), Entry(WorstUi)>>)}
    [] tab = "mental" -> {Missing, JsonList(<<Entry(EmptyUi)>>)}
    [] tab = "sleep" -> {Missing, JsonList(<<>>)}
    [] OTHER -> {Missing}

\* what the file of a tab holds after the worst days: the entry that scores
\* highest, for the placeholder domains too, and for the lab results a rise
\* to the worst values
WorstChoices(tab) ==
  CASE tab = "longitudinal" -> {JsonList(<<Entry(TypicalUi), Entry(WorstUi)>>)}
    [] tab = "productivity" -> {Missing, JsonList(<<Entry(WorstUi)>>)}
    [] OTHER -> {JsonList(<<Entry(WorstUi)>>)}

\* the data directories: of mixed days, file by file, and of the worst days
DirKinds == {"mixed", "worst"}

Choices(kind, tab) == IF kind = "worst" THEN WorstChoices(tab) ELSE FileChoices(tab)

Tabs == {LocalOrder[i] : i \in 1..Len(LocalOrder)}

\* the data directory whose files hold fs, in the order of LocalOrder
DataDir(fs) ==
  [tab \in Tabs |-> fs[CHOOSE i \in 1..Len(LocalOrder) : LocalOrder[i] = tab]]

\* the score function compute_all_scores passes for a tab
ScoreFnOf(tab) ==
  CASE tab = "eye" -> "score_eye_entry"
    [] tab = "hydration" -> "score_hydration_entry"
    [] tab = "msk" -> "score_msk_entry"
    [] OTHER -> "zero"

\* the statement that sets local_scores[tab]
LocalScore(tab, history) ==
  CASE tab = "workspace" -> workspace_score_from_history(history)
    [] tab = "baseline" -> baseline_score_from_history(history)
    [] tab = "longitudinal" ->
         IF history # <<>> THEN longitudinal_with_trend(history) ELSE Ok(FZero)
    [] OTHER -> tab_score_from_history(history, ScoreFnOf(tab), window)

\* {k: round(v, 1) for k, v in d.items()}
RoundDict(d) == [i \in 1..Len(d) |-> <<d[i][1], PyRound(d[i][2], 1)>>]

\* the call, and the loop that loads histories[tab] for every tab
AllCall ==
  /\ pc = "idle"
  /\ \E kind \in DirKinds :
     \E eye \in Choices(kind, "eye"), hydration \in Choices(kind, "hydration"),
        msk \in Choices(kind, "msk"), workspace \in Choices(kind, "workspace"),
        baseline \in Choices(kind, "baseline"),
        longitudinal \in Choices(kind, "longitudinal"),
        mental \in Choices(kind, "mental"), sleep \in Choices(kind, "sleep"),
        productivity \in Choices(kind, "productivity") :
       arg' = [data_dir |-> DataDir(<<eye, hydration, msk, workspace, baseline,
                                      longitudinal, mental, sleep, productivity>>),
               histories |-> [tab \in Tabs |->
                                load_json_history(
                                  DataDir(<<eye, hydration, msk, workspace, baseline,
                                            longitudinal, mental, sleep,
                                            productivity>>)[tab])]]
  /\ op' = "compute_all_scores"
  /\ pc' = "local"
  /\ local_scores' = <<>>
  /\ final_scores' = <<>>
  /\ UNCHANGED <<ret, whi, weekVars>>

\* local_scores[tab] = r, or the exception r ends the call
SetLocal(tab, r) ==
  IF Raised(r)
  THEN /\ ret' = r
       /\ pc' = "done"
       /\ UNCHANGED local_scores
  ELSE /\ local_scores' = Append(local_scores, <<tab, r.v>>)
       /\ pc' = IF Len(local_scores) + 1 = Len(LocalOrder) THEN "whi" ELSE "local"
       /\ UNCHANGED ret

LocalStep(tab) == SetLocal(tab, LocalScore(tab, arg.histories[tab]))

\* local_scores[tab] = ..., for the next tab
AllLocal ==
  /\ pc = "local"
  /\ LocalStep(LocalOrder[Len(local_scores) + 1])
  /\ UNCHANGED <<op, arg, whi, final_scores, weekVars>>

\* whi = compute_whi(local_scores)
AllWhi ==
  /\ pc = "whi"
  /\ whi' = compute_whi(local_scores)
  /\ pc' = "pressure"
  /\ UNCHANGED <<op, arg, ret, local_scores, final_scores, weekVars>>

\* final_scores[tab] = apply_global_pressure(score, whi, pressure_factor=0.35)
SetFinal(item) ==
  final_scores' =
    Append(final_scores, <<item[1], apply_global_pressure(item[2], whi, D(35, 2))>>)

\* one round of the loop over local_scores.items()
AllPressure ==
  /\ pc = "pressure"
  /\ SetFinal(local_scores[Len(final_scores) + 1])
  /\ pc' = IF Len(final_scores) + 1 = Len(local_scores) THEN "return" ELSE "pressure"
  /\ UNCHANGED <<op, arg, ret, local_scores, whi, weekVars>>

AllReturn ==
  /\ pc = "return"
  /\ ret' = Ok([workday_health_index |-> PyRound(whi, 1),
                local_scores |-> RoundDict(local_scores),
                final_scores |-> RoundDict(final_scores)])
  /\ pc' = "done"
  /\ UNCHANGED <<op, arg, allVars, weekVars>>

NextCore ==
  \/ CallWeightedAverage
  \/ CallRecent
  \/ CallTab
  \/ CallWorkspaceHistory
  \/ CallBaselineHistory
  \/ CallLongitudinal
  \/ CallWhi
  \/ CallPressure
  \/ AllCall
  \/ AllLocal
  \/ AllWhi
  \/ AllPressure
  \/ AllReturn

SpecCore == Init /\ [][NextCore]_vars

(***************************************************************************)
(* The weekly metrics, statement by statement: the two filter calls, each  *)
(* with its own read of the clock, and the rest of the function.  The      *)
(* clock may advance whenever a call has not ended.                        *)
(***************************************************************************)
\* the most rows a history of a weekly metric holds
MaxRows == 2
\* how far the clock advances while the program runs, in days
MaxTicks == 1

MetricNames ==
  {"compute_sedentary_metric", "compute_hydration_metric", "compute_sleep_metric",
   "compute_reminders_metric", "compute_high_risk_days"}

\* an entry with a field of each metric malformed
MalformedUi ==
  [EmptyUi EXCEPT !["seated_duration"] = PyInt(5), !["urine_color"] = PyInt(5),
                  !["water_intake"] = PyInt(9), !["sleep_hours"] = Label("abc")]

\* The rows of the histories: entries stamped two weeks back, one week back
\* to the day and within this week; malformed entries; the flat rows of a
\* log; an entry older than two weeks and one stamped after the clock; and
\* rows whose timestamp is no ISO date, carries a UTC offset or is not there.
WeekRows ==
  {[timestamp |-> IsoStr(t, FALSE), user_input |-> ui] :
     t \in {1, 7, 8}, ui \in {GoodUi, WorstUi}}
  \cup {[timestamp |-> IsoStr(t, FALSE), user_input |-> MalformedUi] : t \in {1, 8}}
  \cup {[timestamp |-> IsoStr(7, FALSE), completed |-> PyBool(TRUE),
         workday_health_index |-> PyInt(70)],
        [timestamp |-> IsoStr(1, FALSE), completed |-> PyBool(FALSE),
         workday_health_index |-> PyInt(60)],
        [timestamp |-> IsoStr(-3, FALSE), user_input |-> GoodUi],
        [timestamp |-> IsoStr(20, FALSE), user_input |-> GoodUi],
        [timestamp |-> Label("yesterday"), user_input |-> GoodUi],
        [timestamp |-> IsoStr(8, TRUE), user_input |-> GoodUi],
        [user_input |-> GoodUi]}

WeekHistories == SeqsUpTo(WeekRows, MaxRows)

\* the clock advances
Tick ==
  /\ pc # "done"
  /\ now < Now0 + MaxTicks
  /\ now' = now + 1
  /\ UNCHANGED <<op, arg, ret, pc, allVars, this_week, last_week>>

\* the call of a weekly metric
CallMetric(f, a) ==
  /\ op' = f
  /\ arg' = a
  /\ pc' = "filter_last_days"
  /\ this_week' = None
  /\ last_week' = None
  /\ UNCHANGED <<ret, allVars, now>>

CallSedentary ==
  \E history \in WeekHistories :
    /\ pc = "idle"
    /\ CallMetric("compute_sedentary_metric", [history |-> history])

CallHydration ==
  \E history \in WeekHistories :
    /\ pc = "idle"
    /\ CallMetric("compute_hydration_metric", [history |-> history])

CallSleep ==
  \E history \in WeekHistories :
    /\ pc = "idle"
    /\ CallMetric("compute_sleep_metric", [history |-> history])

CallReminders ==
  \E history \in WeekHistories :
    /\ pc = "idle"
    /\ CallMetric("compute_reminders_metric", [history |-> history])

\* compute_weekly_metrics passes threshold=60, which is also the default
CallHighRisk ==
  \E history \in WeekHistories :
    /\ pc = "idle"
    /\ CallMetric("compute_high_risk_days", [history |-> history, threshold |-> 60])

\* this_week = r, or the exception r ends the call
SetThisWeek(r) ==
  IF Raised(r)
  THEN ret' = r /\ pc' = "done" /\ UNCHANGED this_week
  ELSE this_week' = PyList(r.v) /\ pc' = "filter_prev_week" /\ UNCHANGED ret

\* this_week = filter_last_days(history, 7)
FilterLastDays ==
  /\ pc = "filter_last_days"
  /\ SetThisWeek(filter_last_days(arg.history, 7, now))
  /\ UNCHANGED <<op, arg, allVars, now, last_week>>

\* last_week = r, or the exception r ends the call
SetLastWeek(r) ==
  IF Raised(r)
  THEN ret' = r /\ pc' = "done" /\ UNCHANGED last_week
  ELSE last_week' = PyList(r.v) /\ pc' = "rest" /\ UNCHANGED ret

\* last_week = filter_prev_week(history)
FilterPrevWeek ==
  /\ pc = "filter_prev_week"
  /\ SetLastWeek(filter_prev_week(arg.history, now))
  /\ UNCHANGED <<op, arg, allVars, now, this_week>>

\* the return of the running metric, or the exception r that ends it
Ended(r) ==
  /\ ret' = r
  /\ pc' = "done"
  /\ UNCHANGED <<op, arg, allVars, weekVars>>

\* the rest of compute_sedentary_metric
ReturnSedentary ==
  /\ pc = "rest"
  /\ op = "compute_sedentary_metric"
  /\ Ended(compute_sedentary_metric(this_week.v, last_week.v))

\* the rest of compute_hydration_metric
ReturnHydration ==
  /\ pc = "rest"
  /\ op = "compute_hydration_metric"
  /\ Ended(compute_hydration_metric(this_week.v, last_week.v))

\* the rest of compute_sleep_metric
ReturnSleep ==
  /\ pc = "rest"
  /\ op = "compute_sleep_metric"
  /\ Ended(compute_sleep_metric(this_week.v, last_week.v))

\* the rest of compute_reminders_metric
ReturnReminders ==
  /\ pc = "rest"
  /\ op = "compute_reminders_metric"
  /\ Ended(compute_reminders_metric(this_week.v, last_week.v))

\* the rest of compute_high_risk_days
ReturnHighRisk ==
  /\ pc = "rest"
  /\ op = "compute_high_risk_days"
  /\ Ended(compute_high_risk_days(this_week.v, last_week.v, arg.threshold))

NextWeekly ==
  \/ Tick
  \/ CallSedentary
  \/ CallHydration
  \/ CallSleep
  \/ CallReminders
  \/ CallHighRisk
  \/ FilterLastDays
  \/ FilterPrevWeek
  \/ ReturnSedentary
  \/ ReturnHydration
  \/ ReturnSleep
  \/ ReturnReminders
  \/ ReturnHighRisk

SpecWeekly == Init /\ [][NextWeekly]_vars

(***************************************************************************)
(* The properties.                                                         *)
(***************************************************************************)
FAbs(x) == IF x.m = <<>> THEN x ELSE [x EXCEPT !.s = 1]

\* x * 2^k
FScale(x, k) == IF x.m = <<>> THEN x ELSE [x EXCEPT !.e = @ + k]

\* |x - y| <= 2^-40: x is y up to the rounding of a few float operations on
\* numbers of at most 100
Near(x, y) == FLe(FAbs(FSub(x, y)), FScale(D(1, 0), -40))

InRange(x) == FLe(FZero, x) /\ FLe(x, F100)

ScorerDone == pc = "done" /\ op \in ScorerNames

\* C1: every entry scorer, called on a mapping in which a field is absent
\* (the empty mapping included), returns a score s with 0 <= s <= 100.
C1_ScoreInRange ==
  (ScorerDone /\ arg.value = None) => (~Raised(ret) /\ InRange(ret.v))

\* a value of the wrong type for field f: a number or a list where a label is
\* expected, a non-iterable where a list of labels is expected, a list or an
\* unparseable str where a number is expected, a non-bool where a flag is
\* expected
IsMalformed(f, v) ==
  \/ f \in LabelFields /\ v.t \in {"bool", "int", "float", "list"}
  \/ f \in ListFields /\ v.t \in {"bool", "int", "float"}
  \/ f \in NumFields /\ (v.t = "list" \/ (v.t = "str" /\ Raised(PyFloatOf(v))))
  \/ f \in BoolFields /\ v.t \in {"int", "float", "str", "list"}

\* C2: a scorer called with one field malformed does not raise, and returns
\* the score it returns when that field alone is absent.
C2_MalformedAsAbsent ==
  (ScorerDone /\ IsMalformed(arg.field, arg.value)) =>
    (/\ ~Raised(ret)
     /\ ret = ApplyScoreFn(op, [arg.ui EXCEPT ![arg.field] = None]))

\* C3: within one evaluation of a weekly metric, whatever the clock reads at
\* the two filter calls, no entry is in both the this-week window and the
\* previous-week window.
C3_WindowsDisjoint ==
  (op \in MetricNames /\ last_week.t = "list") =>
    \A i \in 1..Len(this_week.v), j \in 1..Len(last_week.v) :
      this_week.v[i] # last_week.v[j]

\* the fields of a metric's result: the aggregates of the two windows and
\* the deltas
ThisWeekField(f) ==
  CASE f = "compute_sedentary_metric" -> "this_week_avg_seated_block_hours"
    [] f = "compute_hydration_metric" -> "this_week_compliance_percent"
    [] f = "compute_sleep_metric"     -> "this_week_avg_sleep_hours"
    [] f = "compute_reminders_metric" -> "this_week_completed"
    [] f = "compute_high_risk_days"   -> "this_week_high_risk_days"

LastWeekField(f) ==
  CASE f = "compute_sedentary_metric" -> "last_week_avg_seated_block_hours"
    [] f = "compute_hydration_metric" -> "last_week_compliance_percent"
    [] f = "compute_sleep_metric"     -> "last_week_avg_sleep_hours"
    [] f = "compute_reminders_metric" -> "last_week_completed"
    [] f = "compute_high_risk_days"   -> "last_week_high_risk_days"

DeltaFields(f) ==
  CASE f = "compute_sedentary_metric" -> {"change_hours", "change_percent"}
    [] f = "compute_hydration_metric" -> {"change_percent_points"}
    [] f = "compute_sleep_metric"     -> {"change_hours", "trend"}
    [] f = "compute_reminders_metric" -> {"change"}
    [] f = "compute_high_risk_days"   -> {"change"}

\* the running metric has taken both windows and one of them is empty
EmptyWindow ==
  /\ op \in MetricNames
  /\ last_week.t = "list"
  /\ (this_week.v = <<>> \/ last_week.v = <<>>)

\* C4: a weekly metric one of whose windows holds no entry returns normally,
\* with None for that window's aggregate and for every delta.
C4_EmptyWindowIsNone ==
  (pc = "done" /\ EmptyWindow) =>
    (/\ ~Raised(ret)
     /\ (this_week.v = <<>>) => (ret.v[ThisWeekField(op)] = None)
     /\ (last_week.v = <<>>) => (ret.v[LastWeekField(op)] = None)
     /\ \A d \in DeltaFields(op) : ret.v[d] = None)

\* C5: weighted_average raises on every pair of lists of different lengths,
\* and no call of the scoring core ends in any other exception.
C5_OnlyMismatchRaises ==
  /\ (pc = "done" /\ op = "weighted_average" /\ Len(arg.scores) # Len(arg.weights))
       => Raised(ret)
  /\ (pc = "done" /\ Raised(ret)) => (ret.exc = "ValueError")

RecentDone == pc = "done" /\ op = "compute_weighted_recent_score"

\* C6: compute_weighted_recent_score returns on every window of one to five
\* scores, and what it returns on a non-empty window is at least a quarter
\* of the window's greatest score.
C6_SpikeProtection ==
  /\ (RecentDone /\ arg.scores # <<>> /\ Len(arg.scores) <= Len(base_weights))
       => ~Raised(ret)
  /\ (RecentDone /\ arg.scores # <<>> /\ ~Raised(ret))
       => FGe(ret.v, FMul(D(25, 2), FMax(arg.scores)))

\* an old spike of 100 followed by four scores of 0: the weighted average is
\* 8, the score returned 31
C6_Witness ==
  /\ RecentDone
  /\ arg.scores = <<F100, FZero, FZero, FZero, FZero>>
  /\ ~Raised(ret)
  /\ FGe(ret.v, D(25, 0))
  /\ FLt(ret.v, D(35, 0))

\* the weights of the aggregation, newest first
RecencyWeights == <<D(40, 2), D(25, 2), D(15, 2), D(12, 2), D(8, 2)>>

\* the first Len(scores) weights applied newest first, over their sum
PrefixAverage(scores) ==
  FDiv(FSum([i \in 1..Len(scores) |->
               FMul(scores[Len(scores) + 1 - i], RecencyWeights[i])]),
       FSum(SubSeq(RecencyWeights, 1, Len(scores))))

\* the score of the only entry of the history of a tab_score_from_history call
SingleScore == ApplyScoreFn(arg.score_fn, UserInput(arg.history[1]))

TabSingle ==
  /\ pc = "done"
  /\ op = "tab_score_from_history"
  /\ Len(arg.history) = 1
  /\ ~Raised(SingleScore)

\* C7, as first stated: on a single score s the aggregation returns exactly s.
C7_SingleEntryExact ==
  /\ (RecentDone /\ Len(arg.scores) = 1) => (ret = Ok(arg.scores[1]))
  /\ TabSingle => (ret = Ok(SingleScore.v))

\* C7: on a single score s the aggregation returns s up to floating-point
\* rounding, and on a window of n < 5 scores it blends the window's maximum
\* with the average that applies the first n weights newest first and
\* divides by their sum.
C7_SingleEntryNear ==
  /\ (RecentDone /\ Len(arg.scores) = 1)
       => (~Raised(ret) /\ Near(ret.v, arg.scores[1]))
  /\ TabSingle => (~Raised(ret) /\ Near(ret.v, SingleScore.v))
  /\ (RecentDone /\ Len(arg.scores) \in 1..(Len(RecencyWeights) - 1))
       => (ret = Ok(clamp(FAdd(FMul(D(75, 2), PrefixAverage(arg.scores)),
                               FMul(D(25, 2), FMax(arg.scores))),
                          FZero, F100)))

\* a history of one good day of hydration, whose entry score is 6.0: the tab
\* score is not 6.0 but next to it
C7_Witness ==
  /\ TabSingle
  /\ arg.score_fn = "score_hydration_entry"
  /\ SingleScore.v = FInt(6)
  /\ ~Raised(ret)
  /\ ret.v # FInt(6)
  /\ Near(ret.v, FInt(6))

\* the file of a tab holds no history: it is missing, unreadable, not a
\* list, or an empty list
NoHistory(file) ==
  file.kind \in {"missing", "malformed"} \/ ~file.list \/ file.rows = <<>>

HistoryOps ==
  {"tab_score_from_history", "workspace_score_from_history",
   "baseline_score_from_history", "longitudinal_with_trend"}

AllScoresReturned == pc = "done" /\ op = "compute_all_scores" /\ ~Raised(ret)

\* C8: the four history aggregators return 0.0 on the empty history, and
\* compute_all_scores sets and reports the local score 0.0 for every domain
\* whose file holds no history.
C8_EmptyHistoryIsZero ==
  /\ (pc = "done" /\ op \in HistoryOps /\ arg.history = <<>>)
       => (~Raised(ret) /\ ret.v = FZero)
  /\ (op = "compute_all_scores") =>
       \A i \in 1..Len(local_scores) :
         NoHistory(arg.data_dir[local_scores[i][1]]) => (local_scores[i][2] = FZero)
  /\ AllScoresReturned =>
       \A tab \in Tabs :
         NoHistory(arg.data_dir[tab]) =>
           \E i \in 1..Len(ret.v.local_scores) : ret.v.local_scores[i] = <<tab, FZero>>

\* compute_all_scores has returned: no eye file, a musculoskeletal history
C8_Witness ==
  /\ AllScoresReturned
  /\ arg.data_dir["eye"] = Missing
  /\ \E i \in 1..Len(ret.v.local_scores) : ret.v.local_scores[i] = <<"eye", FZero>>
  /\ \E i \in 1..Len(ret.v.local_scores) :
       /\ ret.v.local_scores[i][1] = "msk"
       /\ FGt(ret.v.local_scores[i][2], FZero)

\* the weights the index is stated with
StatedWeights ==
  << <<"mental", D(22, 2)>>, <<"sleep", D(20, 2)>>, <<"msk", D(18, 2)>>,
     <<"eye", D(15, 2)>>, <<"hydration", D(10, 2)>>, <<"workspace", D(8, 2)>>,
     <<"baseline", D(4, 2)>>, <<"longitudinal", D(3, 2)>> >>

\* the items of a dict as a set: what it maps, not in which order
Items(d) == {d[i] : i \in 1..Len(d)}

\* the score items gives to domain k, 0.0 if none
ScoreOf(items, k) ==
  IF \E p \in items : p[1] = k THEN (CHOOSE p \in items : p[1] = k)[2] ELSE FZero

\* the sum of weight * score over the weighted domains
WeightedSum(items) ==
  FSum([i \in 1..Len(StatedWeights) |->
          FMul(ScoreOf(items, StatedWeights[i][1]), StatedWeights[i][2])])

\* every weighted domain has the score c
AllAt(items, c) ==
  \A i \in 1..Len(StatedWeights) : <<StatedWeights[i][1], c>> \in items

WhiDone == pc = "done" /\ op = "compute_whi"

\* C9, as first stated: with all eight domains at c, compute_whi returns c.
C9_UniformExact ==
  \A c \in WhiVals : (WhiDone /\ AllAt(Items(arg.scores), c)) => (ret = Ok(c))

\* C9: compute_whi returns the stated weighted sum of what the mapping holds
\* (0.0 for a missing domain), clamped to [0,100], whatever the order of
\* its keys; with all eight domains at c it returns c up to floating-point
\* rounding.
C9_FixedWeights ==
  /\ WhiDone => (ret = Ok(clamp(WeightedSum(Items(arg.scores)), FZero, F100)))
  /\ \A c \in WhiVals :
       (WhiDone /\ AllAt(Items(arg.scores), c)) => Near(ret.v, c)

\* all eight domains at 10: the index is not 10.0 but next to it
C9_Witness ==
  /\ WhiDone
  /\ AllAt(Items(arg.scores), FInt(10))
  /\ ret.v # FInt(10)
  /\ Near(ret.v, FInt(10))

\* clamp(0.70 * local + 0.30 * (w * 0.35), 0, 100)
Pressed(local, w) ==
  clamp(FAdd(FMul(D(70, 2), local), FMul(D(30, 2), FMul(w, D(35, 2)))), FZero, F100)

\* compute_all_scores is past the statement that sets whi
WhiSet ==
  /\ op = "compute_all_scores"
  /\ (pc \in {"pressure", "return"} \/ (pc = "done" /\ ~Raised(ret)))

\* C10: once set, whi is compute_whi of the local scores and stays so; the
\* final scores are, domain by domain in the order of the local scores,
\* clamp(0.70 * local + 0.30 * (whi * 0.35), 0, 100), one for every local
\* score when the loop has ended; and apply_global_pressure with
\* pressure_factor 0 returns clamp(0.70 * local, 0, 100).
C10_SinglePass ==
  /\ WhiSet =>
       /\ whi = compute_whi(local_scores)
       /\ Len(final_scores) <= Len(local_scores)
       /\ \A i \in 1..Len(final_scores) :
            final_scores[i] = <<local_scores[i][1], Pressed(local_scores[i][2], whi)>>
       /\ (pc # "pressure") =>
            (Len(final_scores) = Len(local_scores) /\ Len(local_scores) = Len(LocalOrder))
  /\ (pc = "done" /\ op = "apply_global_pressure" /\ arg.pressure_factor = FZero)
       => (ret = Ok(clamp(FMul(D(70, 2), arg.local_score), FZero, F100)))

\* compute_all_scores has returned with a positive index that moved a score
C10_Witness ==
  /\ AllScoresReturned
  /\ FGt(whi, FZero)
  /\ \E i \in 1..Len(final_scores) : final_scores[i][2] # local_scores[i][2]

NormalizeDone == pc = "done" /\ op = "normalize_score"

\* C11: normalize_score(raw, max) is non-decreasing in raw for every fixed
\* max > 0 (raw1 <= raw2 implies normalize_score(raw1, max) <=
\* normalize_score(raw2, max)), and returns 0 for every raw when max <= 0.
C11_NormalizeMonotone ==
  NormalizeDone =>
    IF FGt(arg.raw_max, FZero)
    THEN \A raw2 \in RawPoints :
           FLe(arg.raw_points, raw2) =>
             FLe(ret.v, normalize_score(raw2, arg.raw_max))
    ELSE ret.v = FZero

\* normalize_score has returned a score strictly between 0 and 100 under a
\* positive max, and larger raw points score strictly higher
C11_Witness ==
  /\ NormalizeDone
  /\ FGt(arg.raw_max, FZero)
  /\ FLt(FZero, ret.v) /\ FLt(ret.v, F100)
  /\ \E raw2 \in RawPoints :
       FLt(arg.raw_points, raw2) /\ FLt(ret.v, normalize_score(raw2, arg.raw_max))

\* the non-zero values of a list of floats, in order
RECURSIVE NonZero(_)
NonZero(values) ==
  IF values = <<>> THEN <<>>
  ELSE IF Head(values) = FZero THEN NonZero(Tail(values))
  ELSE <<Head(values)>> \o NonZero(Tail(values))

\* the stated penalty of a change from prev to last, prev > 0
StatedChangePenalty(prev, last) ==
  LET change == FDiv(FSub(last, prev), prev)
  IN  IF FGe(change, D(20, 2)) THEN FInt(15)
      ELSE IF FGe(change, D(10, 2)) THEN FInt(8)
      ELSE IF FLe(change, FNeg(D(10, 2))) THEN FInt(-6)
      ELSE FZero

\* the stated penalty of a marker: from its two most recent non-zero values
\* among rows, 0 when there are fewer than two
StatedMarkerPenalty(rows, marker) ==
  LET nz == NonZero(MarkerVals(rows, marker))
  IN  IF Len(nz) < 2 \/ FLe(nz[Len(nz) - 1], FZero) THEN FZero
      ELSE StatedChangePenalty(nz[Len(nz) - 1], nz[Len(nz)])

StatedTrendPenalty(rows) ==
  clamp(FSum([k \in 1..Len(trend_markers) |->
                StatedMarkerPenalty(rows, trend_markers[k])]),
        FInt(-10), FInt(15))

LongitudinalDone ==
  pc = "done" /\ op = "longitudinal_with_trend" /\ arg.history # <<>> /\ ~Raised(ret)

\* C12: in longitudinal_with_trend the trend penalty of each of the 4 lab
\* markers is taken from the percent change between the second-most-recent and
\* the most-recent non-zero values of the marker among the last 3 entries
\* (>= +20% gives +15, >= +10% gives +8, <= -10% gives -6, otherwise 0), and a
\* marker with fewer than two non-zero values there, such as one the latest
\* entry omits, contributes 0: the result is the blend of the latest score
\* with the sum of these penalties.
C12_TrendFromNonZero ==
  LongitudinalDone =>
    ret = WithTrend(score_longitudinal_entry(UserInput(arg.history[Len(arg.history)])),
                    StatedTrendPenalty(Suffix(arg.history, 3)))

\* the int a scorer reads from value v: safe_int(v, 0)
IntRead(v) == safe_int(v, PyInt(0)).v

\* the scorer op has scored an entry whose field f reads as an int above 10
AboveTen(f) == ScorerDone /\ arg.field = f /\ IntRead(arg.value) > 10

\* C13: the linearly scaled contributions are capped: the points
\* score_eye_entry adds for strain (strain_level x 4) are at most 40 and the
\* points score_msk_entry adds for pain (pain_level x 4.5) are at most 45, so
\* an entry with a strain or pain above 10 scores what it scores with 10.
C13_LinearCapped ==
  /\ (op = "score_eye_entry" /\ AboveTen("strain_level")) =>
       ret = score_eye_entry([arg.ui EXCEPT !["strain_level"] = PyInt(10)])
  /\ (op = "score_msk_entry" /\ AboveTen("pain_level")) =>
       ret = score_msk_entry([arg.ui EXCEPT !["pain_level"] = PyInt(10)])

\* the rows of history whose timestamp parses to an instant from lo on and
\* before hi, or at hi when closed, in order
StatedWindow(history, lo, hi, closed) ==
  SelectSeq(history,
            LAMBDA row :
              /\ parse_ts(Timestamp(row)) # None
              /\ lo <= parse_ts(Timestamp(row)).at
              /\ \/ parse_ts(Timestamp(row)).at < hi
                 \/ closed /\ parse_ts(Timestamp(row)).at = hi)

\* a filter call of a weekly metric returns, from statement `at` to `to`
FilterReturns(at, to) == op \in MetricNames /\ pc = at /\ pc' = to

\* C14: for every weekly metric, with now the time at which a window is
\* evaluated, an entry with a parseable timestamp T is in "this week" iff
\* now - 7d <= T <= now and in "previous week" iff now - 14d <= T < now - 7d;
\* an entry stamped later than now, older than now - 14d, or unparseable is
\* in neither window.
C14_WindowBounds ==
  [][/\ FilterReturns("filter_last_days", "filter_prev_week") =>
          this_week'.v = StatedWindow(arg.history, now - 7, now, TRUE)
     /\ FilterReturns("filter_prev_week", "rest") =>
          last_week'.v = StatedWindow(arg.history, now - 14, now - 7, FALSE)]_vars

\* the non-negative numbers among the values a field may hold
Quantities == {v \in FieldValues : v.t \in {"int", "float"} /\ FLe(FZero, Num(v))}

\* the quantities that are at least v
AtLeast(v) == {v2 \in Quantities : FLe(Num(v), Num(v2))}

\* the score of the entry scored last with its field f holding v
HydrationWith(f, v) == score_hydration_entry([arg.ui EXCEPT ![f] = v])

\* score_hydration_entry has scored an entry whose field f holds a quantity
DrinkDone(f) ==
  ScorerDone /\ op = "score_hydration_entry" /\ arg.field = f /\ arg.value \in Quantities

\* C15: with all other fields fixed, the score of score_hydration_entry is
\* non-increasing in water_intake and non-decreasing in caffeine_intake and
\* in sugary_drinks, over all non-negative numbers, whole or not (caffeine
\* 2.5 scores at least what caffeine 2 scores).
C15_DrinksMonotone ==
  /\ DrinkDone("water_intake") =>
       \A v2 \in AtLeast(arg.value) :
         FLe(HydrationWith("water_intake", v2).v, ret.v)
  /\ DrinkDone("caffeine_intake") =>
       \A v2 \in AtLeast(arg.value) :
         FLe(ret.v, HydrationWith("caffeine_intake", v2).v)
  /\ DrinkDone("sugary_drinks") =>
       \A v2 \in AtLeast(arg.value) :
         FLe(ret.v, HydrationWith("sugary_drinks", v2).v)

\* the weight the index gives to the domains that have a scorer
ScoredWeight == FInt(58)

\* C16: for every combination of domain histories the workday_health_index
\* compute_all_scores returns is at most 58.0, because the mental and sleep
\* domains (combined weight 0.42) always have local score 0.0; so the index
\* never reaches the high-risk threshold 60, and no final score reaches the
\* "Critical" bound 80 (final <= 0.70 * 100 + 0.105 * 58 = 76.09).
C16_WhiBelowHighRisk ==
  AllScoresReturned =>
    /\ DictGet(local_scores, "mental", None) = FZero
    /\ DictGet(local_scores, "sleep", None) = FZero
    /\ FLe(whi, ScoredWeight)
    /\ FLe(ret.v.workday_health_index, ScoredWeight)
    /\ ~IsHigh(PyFloat(ret.v.workday_health_index), 60)
    /\ risk_label(ret.v.workday_health_index) \in {"Low", "Moderate"}
    /\ \A i \in 1..Len(final_scores) :
         /\ FLe(final_scores[i][2], D(7609, 2))
         /\ FLe(ret.v.final_scores[i][2], D(7609, 2))
         /\ risk_label(ret.v.final_scores[i][2]) # "Critical"

\* compute_all_scores has returned for a directory in which the mental and
\* sleep files hold entries, with an index above 57 and a final score of 76
\* or more
C16_Witness ==
  /\ AllScoresReturned
  /\ arg.histories["mental"] # <<>>
  /\ arg.histories["sleep"] # <<>>
  /\ FGt(whi, FInt(57))
  /\ \E i \in 1..Len(final_scores) : FGe(final_scores[i][2], FInt(76))

====
